---------------------------- MODULE Spec2Model ----------------------------
(***************************************************************************)
(* A model of the unified data store of ahpxex/utelligence                  *)
(* (src/src/store/unified-data-store.ts): the per-file profiles, the        *)
(* top-level "derived" mirror of the active profile, and the cleaning       *)
(* operations processMissingValues, removeDuplicates and removeOutliers.    *)
(*                                                                         *)
(* JavaScript values are modelled by what the operations do with them:      *)
(*   - a string is a sequence of one-character strings, so that trim(),     *)
(*     toLowerCase(), Number() and String() are computed, not assumed;      *)
(*   - a number is an exact fraction n/d in lowest terms (the arithmetic    *)
(*     of the code on the small values used here is exact);                 *)
(*   - a table object lives in a heap and the store holds references to     *)
(*     it, so that aliasing and in-place assignment are visible.            *)
(* Number() is modelled for the decimal literals (sign, digits, one dot);   *)
(* exponents, hexadecimal literals and Infinity are outside the alphabets.  *)
(***************************************************************************)
EXTENDS Integers, Sequences, FiniteSets, TLC

(***************************************************************************)
(* Generic helpers on sequences                                            *)
(***************************************************************************)
Range(s) == { s[i] : i \in DOMAIN s }

\* Array.prototype.indexOf, 1-based; 0 stands for the code's -1
IndexOf(s, x) ==
    IF \E i \in DOMAIN s : s[i] = x
    THEN CHOOSE i \in DOMAIN s : s[i] = x /\ \A j \in 1..(i - 1) : s[j] # x
    ELSE 0

(***************************************************************************)
(* Characters and strings                                                  *)
(***************************************************************************)
UpperChars == << "A", "B", "C", "D", "E", "F", "G", "H", "I", "J", "K", "L", "M",
                 "N", "O", "P", "Q", "R", "S", "T", "U", "V", "W", "X", "Y", "Z" >>
LowerChars == << "a", "b", "c", "d", "e", "f", "g", "h", "i", "j", "k", "l", "m",
                 "n", "o", "p", "q", "r", "s", "t", "u", "v", "w", "x", "y", "z" >>
DigitChars == << "0", "1", "2", "3", "4", "5", "6", "7", "8", "9" >>
WhiteSpace == { " ", "\t", "\n" }

IsDigit(c) == \E i \in DOMAIN DigitChars : DigitChars[i] = c
DigitVal(c) == (CHOOSE i \in DOMAIN DigitChars : DigitChars[i] = c) - 1

\* String.prototype.toLowerCase on one character
LowerChar(c) ==
    IF \E i \in DOMAIN UpperChars : UpperChars[i] = c
    THEN LowerChars[CHOOSE i \in DOMAIN UpperChars : UpperChars[i] = c]
    ELSE c

toLowerCase(s) == [ i \in DOMAIN s |-> LowerChar(s[i]) ]

RECURSIVE TrimStart(_)
TrimStart(s) ==
    IF s # << >> /\ Head(s) \in WhiteSpace THEN TrimStart(Tail(s)) ELSE s

RECURSIVE TrimEnd(_)
TrimEnd(s) ==
    IF s # << >> /\ s[Len(s)] \in WhiteSpace THEN TrimEnd(SubSeq(s, 1, Len(s) - 1)) ELSE s

\* String.prototype.trim
trim(s) == TrimEnd(TrimStart(s))

(***************************************************************************)
(* Numbers: exact fractions [n, d], d > 0, in lowest terms                  *)
(***************************************************************************)
Abs(x) == IF x < 0 THEN -x ELSE x

RECURSIVE Gcd(_, _)
Gcd(a, b) == IF b = 0 THEN a ELSE Gcd(b, a % b)

Frac(n, d) ==
    LET g == Gcd(Abs(n), Abs(d))
        sg == IF d < 0 THEN -1 ELSE 1
    IN  [ n |-> (sg * n) \div g, d |-> (sg * d) \div g ]

FracAdd(p, q) == Frac(p.n * q.d + q.n * p.d, p.d * q.d)
FracDivInt(p, k) == Frac(p.n, p.d * k)
FracLess(p, q) == p.n * q.d < q.n * p.d
FracLeq(p, q) == p.n * q.d <= q.n * p.d

RECURSIVE Pow10(_)
Pow10(k) == IF k = 0 THEN 1 ELSE 10 * Pow10(k - 1)

RECURSIVE DigitsVal(_, _)
\* the value of a run of decimal digits, most significant first
DigitsVal(ds, acc) ==
    IF ds = << >> THEN acc ELSE DigitsVal(Tail(ds), acc * 10 + DigitVal(Head(ds)))

AllDigits(ds) == \A i \in DOMAIN ds : IsDigit(ds[i])

RECURSIVE StripTwoFive(_)
\* d without its factors 2 and 5: 1 exactly when 1/d has a terminating expansion
StripTwoFive(d) ==
    IF d % 2 = 0 THEN StripTwoFive(d \div 2)
    ELSE IF d % 5 = 0 THEN StripTwoFive(d \div 5)
    ELSE d

(***************************************************************************)
(* Cell values.  One record shape for every JavaScript value:              *)
(*   t = "null" | "undef" | "str" | "num" | "bool" | "nan"                  *)
(*   s = the characters of a string, n/d = the fraction of a number         *)
(*   (a boolean keeps its truth value in n: 1 for true, 0 for false).       *)
(***************************************************************************)
Null == [ t |-> "null", s |-> << >>, n |-> 0, d |-> 1 ]
Undef == [ t |-> "undef", s |-> << >>, n |-> 0, d |-> 1 ]
NaN == [ t |-> "nan", s |-> << >>, n |-> 0, d |-> 1 ]
StrV(chars) == [ t |-> "str", s |-> chars, n |-> 0, d |-> 1 ]
NumQ(q) == [ t |-> "num", s |-> << >>, n |-> q.n, d |-> q.d ]
NumV(k) == NumQ(Frac(k, 1))
BoolV(b) == [ t |-> "bool", s |-> << >>, n |-> (IF b THEN 1 ELSE 0), d |-> 1 ]

QOf(v) == [ n |-> v.n, d |-> v.d ]

\* StringToNumber on the decimal literals: trimmed; "" is 0; [+-] digits [. digits]
\* or [+-] . digits; anything else is NaN
StringToNumber(chars) ==
    LET body == trim(chars)
        signed == body # << >> /\ Head(body) \in { "+", "-" }
        sign == IF signed /\ Head(body) = "-" THEN -1 ELSE 1
        mag == IF signed THEN Tail(body) ELSE body
        dot == IndexOf(mag, ".")
        ip == IF dot = 0 THEN mag ELSE SubSeq(mag, 1, dot - 1)
        fp == IF dot = 0 THEN << >> ELSE SubSeq(mag, dot + 1, Len(mag))
        bar == IndexOf(mag, "/")
        num == SubSeq(mag, 1, bar - 1)
        den == SubSeq(mag, bar + 1, Len(mag))
    IN  IF body = << >> THEN NumV(0)
        ELSE IF AllDigits(ip) /\ AllDigits(fp) /\ Len(ip) + Len(fp) > 0
        THEN NumQ(Frac(sign * (DigitsVal(ip, 0) * Pow10(Len(fp)) + DigitsVal(fp, 0)),
                       Pow10(Len(fp))))
        \* the printed form of a fraction with no terminating expansion
        ELSE IF bar > 1 /\ bar < Len(mag) /\ AllDigits(num) /\ AllDigits(den)
                /\ DigitsVal(den, 0) > 0 /\ StripTwoFive(DigitsVal(den, 0)) # 1
        THEN NumQ(Frac(sign * DigitsVal(num, 0), DigitsVal(den, 0)))
        ELSE NaN

\* Number(value)
Number(v) ==
    CASE v.t = "num" -> v
      [] v.t = "nan" -> NaN
      [] v.t = "null" -> NumV(0)
      [] v.t = "undef" -> NaN
      [] v.t = "bool" -> NumV(v.n)
      [] OTHER -> StringToNumber(v.s)

isNaN(v) == v.t = "nan"

RECURSIVE NatDigits(_)
\* the decimal digits of a natural number
NatDigits(k) ==
    IF k < 10 THEN << DigitChars[k + 1] >>
    ELSE NatDigits(k \div 10) \o << DigitChars[(k % 10) + 1] >>

RECURSIVE FracDigits(_, _)
\* long division of r/d, r < d, for a terminating decimal
FracDigits(r, d) ==
    IF r = 0 THEN << >>
    ELSE << DigitChars[((r * 10) \div d) + 1] >> \o FracDigits((r * 10) % d, d)

\* Number::toString: an integer prints its digits, a terminating decimal its
\* expansion; a fraction with no terminating expansion prints as n/d, which stands
\* for the shortest decimal that Number() reads back as the same value
NumberToString(q) ==
    LET neg == IF q.n < 0 THEN << "-" >> ELSE << >>
        a == Abs(q.n)
    IN  IF q.d = 1 THEN neg \o NatDigits(a)
        ELSE IF StripTwoFive(q.d) = 1
        THEN neg \o NatDigits(a \div q.d) \o << "." >> \o FracDigits(a % q.d, q.d)
        ELSE neg \o NatDigits(a) \o << "/" >> \o NatDigits(q.d)

\* String(value)
String(v) ==
    CASE v.t = "str" -> v.s
      [] v.t = "num" -> NumberToString(QOf(v))
      [] v.t = "bool" -> (IF v.n = 1 THEN << "t", "r", "u", "e" >>
                          ELSE << "f", "a", "l", "s", "e" >>)
      [] v.t = "null" -> << "n", "u", "l", "l" >>
      [] v.t = "nan" -> << "N", "a", "N" >>
      [] OTHER -> << "u", "n", "d", "e", "f", "i", "n", "e", "d" >>

\* JavaScript truthiness (the operand of || and of a condition)
Truthy(v) ==
    CASE v.t = "str" -> v.s # << >>
      [] v.t = "num" -> v.n # 0
      [] v.t = "bool" -> v.n = 1
      [] OTHER -> FALSE

\* JSON.parse(JSON.stringify(cell)) for an array element: undefined and NaN
\* come back as null, every other value as itself
JsonRoundTrip(v) == IF v.t \in { "undef", "nan" } THEN Null ELSE v

(***************************************************************************)
(* Own-property order of a plain object (Object.keys, Object.entries):     *)
(* the keys that are array indices first, in ascending numeric order, then  *)
(* the other string keys in the order they were created.                   *)
(***************************************************************************)
\* a canonical array index: digits, no leading zero (values up to nine digits;
\* the longer indices below 2^32 - 1 are outside the alphabets)
IsArrayIndex(key) ==
    /\ key # << >>
    /\ AllDigits(key)
    /\ (Len(key) = 1 \/ key[1] # "0")
    /\ Len(key) <= 9

RECURSIVE InsertByIndex(_, _)
InsertByIndex(key, sorted) ==
    IF sorted = << >> THEN << key >>
    ELSE IF DigitsVal(key, 0) < DigitsVal(Head(sorted), 0) THEN << key >> \o sorted
    ELSE << Head(sorted) >> \o InsertByIndex(key, Tail(sorted))

RECURSIVE IndexKeysSorted(_)
IndexKeysSorted(keys) ==
    IF keys = << >> THEN << >>
    ELSE IF IsArrayIndex(Head(keys))
         THEN InsertByIndex(Head(keys), IndexKeysSorted(Tail(keys)))
         ELSE IndexKeysSorted(Tail(keys))

RECURSIVE NameKeys(_)
NameKeys(keys) ==
    IF keys = << >> THEN << >>
    ELSE (IF IsArrayIndex(Head(keys)) THEN << >> ELSE << Head(keys) >>)
         \o NameKeys(Tail(keys))

\* keys: the distinct keys in creation order
OwnKeys(keys) == IndexKeysSorted(keys) \o NameKeys(keys)

(***************************************************************************)
(* processMissingValues: the helpers declared inside it                     *)
(***************************************************************************)
Sentinels == { << "n", "a" >>, << "n", "/", "a" >>, << "n", "u", "l", "l" >>,
               << "-" >>, << "n", "a", "n" >> }

\* a variant of the classifier that compares the text as it is written
isCellMissingAsWritten(cell) ==
    \/ cell.t = "null"
    \/ cell.t = "undef"
    \/ (cell.t = "str" /\ cell.s = << >>)
    \/ (cell.t = "str" /\ cell.s \in Sentinels)

isCellMissing(cell) ==
    \/ cell.t = "null"
    \/ cell.t = "undef"
    \/ (cell.t = "str" /\ cell.s = << >>)
    \/ (cell.t = "str" /\ trim(cell.s) = << >>)
    \/ (cell.t = "str" /\ toLowerCase(trim(cell.s)) \in Sentinels)

sMean == << "m", "e", "a", "n" >>
sMedian == << "m", "e", "d", "i", "a", "n" >>
sMin == << "m", "i", "n" >>
sMax == << "m", "a", "x" >>
sMode == << "m", "o", "d", "e" >>

RECURSIVE FracSum(_)
\* values.reduce((a, b) => a + b, 0)
FracSum(values) ==
    IF values = << >> THEN Frac(0, 1)
    ELSE FracAdd(FracSum(SubSeq(values, 1, Len(values) - 1)), values[Len(values)])

RECURSIVE InsertAsc(_, _)
InsertAsc(q, sorted) ==
    IF sorted = << >> THEN << q >>
    ELSE IF FracLess(q, Head(sorted)) THEN << q >> \o sorted
    ELSE << Head(sorted) >> \o InsertAsc(q, Tail(sorted))

RECURSIVE SortAsc(_)
\* [...values].sort((a, b) => a - b)
SortAsc(values) ==
    IF values = << >> THEN << >>
    ELSE InsertAsc(values[Len(values)], SortAsc(SubSeq(values, 1, Len(values) - 1)))

\* a variant that computes every statistic over the first value only
calculateStatisticOfFirst(values, method) ==
    IF values = << >> THEN NaN ELSE NumQ(values[1])

\* a variant that takes every method for mean
calculateStatisticAlwaysMean(values, method) ==
    IF values = << >> THEN NaN ELSE NumQ(FracDivInt(FracSum(values), Len(values)))

\* values: a sequence of fractions; the result is a cell value (a number, or NaN
\* for 0/0 on an empty input)
calculateStatistic(values, method) ==
    CASE method = sMean ->
            IF values = << >> THEN NaN ELSE NumQ(FracDivInt(FracSum(values), Len(values)))
      [] method = sMedian ->
            LET sorted == SortAsc(values)
                mid == Len(sorted) \div 2
            IN  IF values = << >> THEN NaN
                ELSE IF Len(sorted) % 2 = 1 THEN NumQ(sorted[mid + 1])
                ELSE NumQ(FracDivInt(FracAdd(sorted[mid], sorted[mid + 1]), 2))
      [] method = sMin ->
            NumQ(CHOOSE q \in Range(values) : \A r \in Range(values) : FracLeq(q, r))
      [] method = sMax ->
            NumQ(CHOOSE q \in Range(values) : \A r \in Range(values) : FracLeq(r, q))
      [] OTHER -> NumV(0)

\* the key __proto__: on the plain object `frequency` it is the accessor of
\* Object.prototype, whose setter ignores a value that is not an object, so
\* frequency["__proto__"] = ... creates no key
ProtoKey == << "_", "_", "p", "r", "o", "t", "o", "_", "_" >>

RECURSIVE FrequencyKeys(_)
\* the keys of the frequency record, in the order the loop creates them (the
\* other names a plain object inherits, constructor, toString and the like,
\* are outside the alphabets)
FrequencyKeys(values) ==
    IF values = << >> THEN << >>
    ELSE LET before == FrequencyKeys(SubSeq(values, 1, Len(values) - 1))
             key == String(values[Len(values)])
         IN  IF key \in Range(before) \/ key = ProtoKey THEN before
             ELSE Append(before, key)

FrequencyOf(values, key) == Cardinality({ i \in DOMAIN values : String(values[i]) = key })

\* values: a sequence of cell values
calculateMode(values) ==
    LET entries == OwnKeys(FrequencyKeys(values))
        \* a stable sort by descending count puts first the earliest entry
        \* among those of the highest count
        first == CHOOSE i \in DOMAIN entries :
                    /\ \A j \in DOMAIN entries :
                          FrequencyOf(values, entries[j]) <= FrequencyOf(values, entries[i])
                    /\ \A j \in 1..(i - 1) :
                          FrequencyOf(values, entries[j]) < FrequencyOf(values, entries[i])
        numVal == Number(StrV(entries[first]))
    IN  IF entries = << >> THEN StrV(<< >>)
        ELSE IF ~isNaN(numVal) THEN numVal ELSE StrV(entries[first])

(***************************************************************************)
(* processMissingValues: one column of the loop                             *)
(***************************************************************************)
\* row[colIndex]; a position the row does not have reads as undefined
CellAt(row, ci) == IF ci \in DOMAIN row THEN row[ci] ELSE Undef

MissingCount(rows, ci) ==
    Cardinality({ r \in DOMAIN rows : isCellMissing(CellAt(rows[r], ci)) })

\* totalRows > 0 ? (missingCount / totalRows) * 100 : 0
MissingPercentage(rows, ci) ==
    IF Len(rows) > 0 THEN Frac(MissingCount(rows, ci) * 100, Len(rows)) ELSE Frac(0, 1)

\* Number(columnSetting.value) || 50
DropThreshold(value) ==
    IF Truthy(Number(value)) THEN QOf(Number(value)) ELSE Frac(50, 1)

RECURSIVE DropMissingRows(_, _)
\* rows.filter(row => !isCellMissing(row[colIndex]))
DropMissingRows(rows, ci) ==
    IF rows = << >> THEN << >>
    ELSE (IF isCellMissing(CellAt(Head(rows), ci)) THEN << >> ELSE << Head(rows) >>)
         \o DropMissingRows(Tail(rows), ci)

\* rows.map(row => isCellMissing(row[colIndex]) ? a copy with the cell set : a copy)
FillMissingCells(rows, ci, fill) ==
    [ r \in DOMAIN rows |->
        IF isCellMissing(CellAt(rows[r], ci)) THEN [ rows[r] EXCEPT ![ci] = fill ]
        ELSE rows[r] ]

ApplyDrop(rows, ci, value) ==
    IF FracLeq(MissingPercentage(rows, ci), DropThreshold(value))
    THEN DropMissingRows(rows, ci)
    ELSE rows

\* a variant that fills with the value as it is given
FillValueAsGiven(value) ==
    IF value.t \in { "undef", "null" } THEN StrV(<< >>) ELSE value

\* rawValue = value ?? ""; Number(rawValue) unless that is NaN
FillValueOf(value) ==
    LET rawValue == IF value.t \in { "undef", "null" } THEN StrV(<< >>) ELSE value
        numericValue == Number(rawValue)
    IN  IF ~isNaN(numericValue) THEN numericValue ELSE rawValue

ApplyFillValue(rows, ci, value) == FillMissingCells(rows, ci, FillValueOf(value))

RECURSIVE NonMissingValues(_, _)
\* the cells of the column that are not missing, in row order
NonMissingValues(rows, ci) ==
    IF rows = << >> THEN << >>
    ELSE (IF isCellMissing(CellAt(Head(rows), ci)) THEN << >>
          ELSE << CellAt(Head(rows), ci) >>)
         \o NonMissingValues(Tail(rows), ci)

RECURSIVE NumericValues(_)
\* the fractions of the values whose Number() is not NaN, in order
NumericValues(values) ==
    IF values = << >> THEN << >>
    ELSE (IF isNaN(Number(Head(values))) THEN << >> ELSE << QOf(Number(Head(values))) >>)
         \o NumericValues(Tail(values))

\* String(columnSetting.value || "mode")
MethodOf(value) == IF Truthy(value) THEN String(value) ELSE sMode

ReplacementValue(rows, ci, value) ==
    LET method == MethodOf(value)
        nonMissingValues == NonMissingValues(rows, ci)
        numericValues == NumericValues(nonMissingValues)
    IN  IF method = sMode \/ Len(numericValues) = 0
        THEN calculateMode(nonMissingValues)
        ELSE calculateStatistic(numericValues, method)

ApplyFillMethod(rows, ci, value) ==
    FillMissingCells(rows, ci, ReplacementValue(rows, ci, value))

\* the body of the loop for a column found in the headers, with a setting
\* object; an unknown strategy changes nothing
ProcessColumn(rows, ci, setting) ==
    CASE setting.strategy = "drop" -> ApplyDrop(rows, ci, setting.value)
      [] setting.strategy = "fill-value" -> ApplyFillValue(rows, ci, setting.value)
      [] setting.strategy = "fill-method" -> ApplyFillMethod(rows, ci, setting.value)
      [] OTHER -> rows

(***************************************************************************)
(* Bounds and the inputs the actions draw from                              *)
(***************************************************************************)
\* profiles created in one run by uploadFile
MaxProfilesCreated == 2
\* profiles created in one run, those of direct createProfile calls included
MaxProfilesManaged == 3
\* cleaning calls made in one run (processMissingValues, removeDuplicates,
\* removeOutliers)
MaxCleanOps == 2
\* rows of a table the engine specification starts from
MaxRows == 3

kx == << "x" >>
ky == << "y" >>
kz == << "z" >>
\* a column whose name is an integer
k1 == << "1" >>

Table(headers, rows) == [ headers |-> headers, rows |-> rows ]

sNA == StrV(<< "N", "A" >>)
sEmpty == StrV(<< >>)
s1 == StrV(<< "1" >>)
s2 == StrV(<< "2" >>)
s3 == StrV(<< "3" >>)
sa == StrV(<< "a" >>)
sProto == StrV(ProtoKey)
sb == StrV(<< "b" >>)

\* the files a user uploads: the key is `${file.name}-${file.size}`; parses says
\* whether processFile resolves (with table) or rejects
Files ==
    { [ key |-> "a.csv-10", parses |-> TRUE,
        table |-> Table(<< kx, ky >>, << << s1, sNA >>, << s2, s3 >>, << sEmpty, sEmpty >> >>) ],
      [ key |-> "bad.csv-1", parses |-> FALSE,
        table |-> Table(<< >>, << >>) ] }

\* a column setting: isNull marks a settings entry that is null instead of an object
Setting(strategy, value) == [ isNull |-> FALSE, strategy |-> strategy, value |-> value ]
NullSetting == [ isNull |-> TRUE, strategy |-> "", value |-> Undef ]
Entry(key, setting) == [ key |-> key, setting |-> setting ]

\* the settings objects passed to processMissingValues by the store's callers:
\* each is the sequence of its entries in the order they were written
StoreSettings ==
    { << Entry(ky, Setting("fill-method", StrV(sMean))) >>,
      << Entry(kx, Setting("drop", Undef)) >>,
      << Entry(kx, Setting("fill-value", StrV(<< "5" >>))) >>,
      << Entry(ky, Setting("fill-value", StrV(<< "a" >>))), Entry(kx, NullSetting) >> }

\* the index arrays passed to removeDuplicates and removeOutliers (0-based)
IndexLists == { << 1 >>, << 0, 0, 7, -1 >> }

(***************************************************************************)
(* The store                                                               *)
(***************************************************************************)
VARIABLES
    heap,             \* the table objects: reference -> [headers, rows]
    profiles,         \* the profiles Map, in insertion order
    activeProfileId,  \* 0 for null
    isLoading,
    error,            \* NoError for null
    rawData,          \* the derived state: references, 0 for null
    processedData,
    cleanedData,
    uploads,          \* uploadFile and processAndAnalyze calls suspended at
                      \* `await processFile(file)`
    nextId,           \* stands for Date.now() in the profile id
    cleanOps,         \* the cleaning calls made so far
    pmv,              \* the processMissingValues call: its locals, and what it did
    hist,             \* history: the last removal, and what followed the last commit
    ml                \* the classifier call: its arguments and its result

storeVars == << heap, profiles, activeProfileId, isLoading, error, rawData,
                processedData, cleanedData, uploads, nextId, cleanOps, pmv, hist >>

vars == << heap, profiles, activeProfileId, isLoading, error, rawData,
           processedData, cleanedData, uploads, nextId, cleanOps, pmv, hist, ml >>

NoError == "null"
NoRef == 0

\* a reference not in use
NewRef(h) == Cardinality(DOMAIN h) + 1

Alloc(h, ref, table) == [ i \in DOMAIN h \cup { ref } |-> IF i = ref THEN table ELSE h[i] ]

createDefaultProfile(id, file) ==
    [ id |-> id, hasFile |-> TRUE, fileIdentifier |-> file.key,
      rawData |-> NoRef, processedData |-> NoRef, cleanedData |-> NoRef ]

ProfileIds == { profiles[i].id : i \in DOMAIN profiles }
ProfileIndex(id) == CHOOSE i \in DOMAIN profiles : profiles[i].id = id
ProfileOf(id) == profiles[ProfileIndex(id)]

\* pc: idle (no call), running, done (onComplete was just called), failed
\* (onError was just called); settings, keys, step, cur, src: the call's argument
\* and its locals columnKeys, currentStep, currentData, sourceData; readFrom: the
\* store's table the source was read from.  The rest is history of the call:
\* srcSnap the value of that table when the call started, prevRows the working
\* rows before the last column, cleanedBefore and owner the store's cleanedData
\* and activeProfileId at the start, log the calls made to the hooks, seen the
\* number of loop iterations that had run to their end when each onProgress was
\* called.  The record
\* is forgotten (IdlePmv) by the next action of the store.
IdlePmv ==
    [ pc |-> "idle", settings |-> << >>, keys |-> << >>, step |-> 0,
      cur |-> NoRef, src |-> NoRef, readFrom |-> NoRef,
      srcSnap |-> Table(<< >>, << >>), prevRows |-> << >>, cleanedBefore |-> NoRef,
      owner |-> 0, log |-> << >>, seen |-> << >> ]

\* History.  since: what has happened since the last successful
\* processMissingValues, as long as that is "commit" (nothing), "switch" (only
\* switchProfile calls) or "removed" (exactly one removeDuplicates/removeOutliers),
\* with result the table it produced and owner the profile active then; "none"
\* otherwise.  op = "remove" when the last action was a removal of the rows at
\* indices from the table input; first is the first defined of the active
\* profile's cleaned, processed and raw table when that removal was called.
NoHist ==
    [ since |-> "none", result |-> Table(<< >>, << >>), owner |-> 0,
      op |-> "none", indices |-> << >>, input |-> Table(<< >>, << >>),
      first |-> Table(<< >>, << >>) ]

RECURSIVE ProfileRefs(_)
ProfileRefs(ps) ==
    IF ps = << >> THEN << >>
    ELSE << Head(ps).rawData, Head(ps).processedData, Head(ps).cleanedData >>
         \o ProfileRefs(Tail(ps))

RECURSIVE Distinct(_)
\* the references of a sequence, each once, in the order they first occur
Distinct(refs) ==
    IF refs = << >> THEN << >>
    ELSE LET before == Distinct(SubSeq(refs, 1, Len(refs) - 1))
             last == refs[Len(refs)]
         IN  IF last = NoRef \/ last \in Range(before) THEN before ELSE Append(before, last)

\* The references are names of objects, and a state is kept up to the choice of
\* the names: the objects the program still holds are numbered in the order the
\* store reaches them, and the others are dropped.
Hold(h, ps, raw, processed, cleaned, call) ==
    LET order == Distinct(<< raw, processed, cleaned >> \o ProfileRefs(ps)
                          \o << call.cur, call.src, call.readFrom, call.cleanedBefore >>)
        name(r) == IF r = NoRef THEN NoRef ELSE IndexOf(order, r)
    IN  /\ heap' = [ k \in 1..Len(order) |-> h[order[k]] ]
        /\ profiles' = [ i \in DOMAIN ps |->
                           [ ps[i] EXCEPT !.rawData = name(@), !.processedData = name(@),
                                          !.cleanedData = name(@) ] ]
        /\ rawData' = name(raw)
        /\ processedData' = name(processed)
        /\ cleanedData' = name(cleaned)
        /\ pmv' = [ call EXCEPT !.cur = name(@), !.src = name(@), !.readFrom = name(@),
                                !.cleanedBefore = name(@) ]

\* no classifier was called
NoRun ==
    [ pc |-> "none", type |-> "", trainLabels |-> << >>, testLabels |-> << >>,
      trainEncoded |-> << >>, testEncoded |-> << >>, classes |-> << >>,
      predictions |-> << >>, confusion_matrix |-> << >> ]

Init ==
    /\ ml = NoRun
    /\ heap = << >>
    /\ profiles = << >>
    /\ activeProfileId = 0
    /\ isLoading = FALSE
    /\ error = NoError
    /\ rawData = NoRef
    /\ processedData = NoRef
    /\ cleanedData = NoRef
    /\ uploads = { }
    /\ nextId = 1
    /\ cleanOps = 0
    /\ pmv = IdlePmv
    /\ hist = NoHist

\* no event handler runs inside the synchronous body of processMissingValues
Quiet == pmv.pc # "running"

(***************************************************************************)
(* Profile management                                                      *)
(***************************************************************************)
\* a variant that does not look the id up in the Map
SwitchProfileUnchecked(id) ==
    /\ Quiet
    /\ activeProfileId' = id
    /\ IF id \in ProfileIds
       THEN Hold(heap, profiles, ProfileOf(id).rawData, ProfileOf(id).processedData,
                 ProfileOf(id).cleanedData, IdlePmv)
       ELSE Hold(heap, profiles, NoRef, NoRef, NoRef, IdlePmv)
    /\ hist' = NoHist
    /\ UNCHANGED << isLoading, error, uploads, nextId, cleanOps >>

\* switchProfile(profileId): nothing happens for an id that is not in the Map
SwitchProfile(id) ==
    /\ Quiet
    /\ IF id \in ProfileIds
       THEN /\ activeProfileId' = id
            /\ Hold(heap, profiles, ProfileOf(id).rawData, ProfileOf(id).processedData,
                    ProfileOf(id).cleanedData, IdlePmv)
            /\ hist' = IF hist.since \in { "commit", "switch" }
                       THEN [ NoHist EXCEPT !.since = "switch", !.result = hist.result,
                                            !.owner = hist.owner ]
                       ELSE NoHist
            /\ UNCHANGED << isLoading, error, uploads, nextId, cleanOps >>
       ELSE UNCHANGED vars

RECURSIVE WithoutProfile(_, _)
WithoutProfile(ps, id) ==
    IF ps = << >> THEN << >>
    ELSE (IF Head(ps).id = id THEN << >> ELSE << Head(ps) >>) \o WithoutProfile(Tail(ps), id)

\* a variant that makes the last remaining profile the active one
DeleteProfileToLast(id) ==
    /\ Quiet
    /\ LET newProfiles == WithoutProfile(profiles, id)
           last == Len(newProfiles)
       IN  IF activeProfileId = id
           THEN IF newProfiles # << >>
                THEN /\ activeProfileId' = newProfiles[last].id
                     /\ Hold(heap, newProfiles, newProfiles[last].rawData,
                             newProfiles[last].processedData,
                             newProfiles[last].cleanedData, IdlePmv)
                ELSE /\ activeProfileId' = 0
                     /\ Hold(heap, newProfiles, NoRef, NoRef, NoRef, IdlePmv)
           ELSE /\ UNCHANGED activeProfileId
                /\ Hold(heap, newProfiles, rawData, processedData, cleanedData, IdlePmv)
    /\ hist' = NoHist
    /\ UNCHANGED << isLoading, error, uploads, nextId, cleanOps >>

\* deleteProfile(profileId)
DeleteProfile(id) ==
    /\ Quiet
    /\ LET newProfiles == WithoutProfile(profiles, id)
       IN  IF activeProfileId = id
           THEN IF newProfiles # << >>
                THEN /\ activeProfileId' = newProfiles[1].id
                     /\ Hold(heap, newProfiles, newProfiles[1].rawData,
                             newProfiles[1].processedData, newProfiles[1].cleanedData,
                             IdlePmv)
                ELSE /\ activeProfileId' = 0
                     /\ Hold(heap, newProfiles, NoRef, NoRef, NoRef, IdlePmv)
           ELSE /\ UNCHANGED activeProfileId
                /\ Hold(heap, newProfiles, rawData, processedData, cleanedData, IdlePmv)
    /\ hist' = NoHist
    /\ UNCHANGED << isLoading, error, uploads, nextId, cleanOps >>

\* clearFile(): deleteProfile(activeProfileId) when a profile is active
ClearFile ==
    /\ activeProfileId # 0
    /\ DeleteProfile(activeProfileId)

\* clearAllFiles()
ClearAllFiles ==
    /\ Quiet
    /\ activeProfileId' = 0
    /\ Hold(heap, << >>, NoRef, NoRef, NoRef, IdlePmv)
    /\ isLoading' = FALSE
    /\ error' = NoError
    /\ hist' = NoHist
    /\ UNCHANGED << uploads, nextId, cleanOps >>

\* createProfile(file): a new profile, made active, with no table yet
CreateProfile(file) ==
    /\ Quiet
    /\ nextId <= MaxProfilesManaged
    /\ activeProfileId' = nextId
    /\ Hold(heap, Append(profiles, createDefaultProfile(nextId, file)),
            NoRef, NoRef, NoRef, IdlePmv)
    /\ nextId' = nextId + 1
    /\ hist' = NoHist
    /\ UNCHANGED << isLoading, error, uploads, cleanOps >>

(***************************************************************************)
(* uploadFile                                                              *)
(***************************************************************************)
\* a variant that looks only at the profiles whose file has been parsed
HasParsedProfileFor(file) ==
    \E i \in DOMAIN profiles :
        profiles[i].fileIdentifier = file.key /\ profiles[i].rawData # NoRef

\* Array.from(profiles.values()).find(p => p.fileIdentifier === fileKey)
HasProfileFor(file) == \E i \in DOMAIN profiles : profiles[i].fileIdentifier = file.key

\* a profile of this file exists: switchProfile(existingProfile.id) and return
UploadExisting(file) ==
    /\ HasProfileFor(file)
    /\ SwitchProfile(profiles[CHOOSE i \in DOMAIN profiles :
                         /\ profiles[i].fileIdentifier = file.key
                         /\ \A j \in 1..(i - 1) : profiles[j].fileIdentifier # file.key].id)

\* no profile of this file: createProfile(file), set isLoading, and suspend at
\* `await processFile(file)`
UploadStart(file) ==
    /\ Quiet
    /\ ~HasProfileFor(file)
    /\ nextId <= MaxProfilesCreated
    /\ activeProfileId' = nextId
    /\ Hold(heap, Append(profiles, createDefaultProfile(nextId, file)),
            NoRef, NoRef, NoRef, IdlePmv)
    /\ isLoading' = TRUE
    /\ error' = NoError
    /\ uploads' = uploads \cup { [ kind |-> "upload", profileId |-> nextId, file |-> file ] }
    /\ nextId' = nextId + 1
    /\ hist' = NoHist
    /\ UNCHANGED cleanOps

\* processFile resolved: the profile (when it is still in the Map) and the
\* derived state get the parsed table
UploadFinish(u) ==
    /\ Quiet
    /\ u \in uploads
    /\ u.kind = "upload"
    /\ u.file.parses
    /\ LET result == NewRef(heap)
           h1 == Alloc(heap, result, u.file.table)
           processed == NewRef(h1)
           h2 == Alloc(h1, processed, u.file.table)
       IN  Hold(h2,
                [ i \in DOMAIN profiles |->
                    IF profiles[i].id = u.profileId
                    THEN [ profiles[i] EXCEPT !.rawData = result,
                                              !.processedData = processed ]
                    ELSE profiles[i] ],
                result, processed, cleanedData, IdlePmv)
    /\ isLoading' = FALSE
    /\ uploads' = uploads \ { u }
    /\ hist' = NoHist
    /\ UNCHANGED << activeProfileId, error, nextId, cleanOps >>

\* processFile rejected
\* a variant of the catch block that leaves isLoading as it is
UploadFailStillLoading(u) ==
    /\ Quiet
    /\ u \in uploads
    /\ u.kind = "upload"
    /\ ~u.file.parses
    /\ error' = "File processing error"
    /\ uploads' = uploads \ { u }
    /\ hist' = NoHist
    /\ Hold(heap, profiles, rawData, processedData, cleanedData, IdlePmv)
    /\ UNCHANGED << activeProfileId, isLoading, nextId, cleanOps >>

UploadFail(u) ==
    /\ Quiet
    /\ u \in uploads
    /\ u.kind = "upload"
    /\ ~u.file.parses
    /\ error' = "File processing error"
    /\ isLoading' = FALSE
    /\ uploads' = uploads \ { u }
    /\ hist' = NoHist
    /\ Hold(heap, profiles, rawData, processedData, cleanedData, IdlePmv)
    /\ UNCHANGED << activeProfileId, nextId, cleanOps >>

(***************************************************************************)
(* processAndAnalyze                                                       *)
(***************************************************************************)
\* currentProfile.file, by its identifier
FileOf(profile) == CHOOSE f \in Files : f.key = profile.fileIdentifier

\* processAndAnalyze(columns) up to its return or to `await processFile(file)`:
\* without an active profile the error is set; a profile that has its raw and
\* processed table, or no file, returns at once; a profile with a raw table is
\* analysed without a parse
ProcessAndAnalyzeStart ==
    /\ Quiet
    /\ IF activeProfileId \notin ProfileIds
       THEN /\ error' = "No profile selected"
            /\ Hold(heap, profiles, rawData, processedData, cleanedData, IdlePmv)
            /\ hist' = NoHist
            /\ UNCHANGED << activeProfileId, isLoading, uploads, nextId, cleanOps >>
       ELSE LET currentProfile == ProfileOf(activeProfileId)
            IN  IF \/ currentProfile.rawData # NoRef /\ currentProfile.processedData # NoRef
                   \/ ~currentProfile.hasFile
                THEN UNCHANGED vars
                ELSE IF currentProfile.rawData # NoRef
                THEN LET processed == NewRef(heap)
                     IN  /\ Hold(Alloc(heap, processed, heap[currentProfile.rawData]),
                                 [ i \in DOMAIN profiles |->
                                     IF profiles[i].id = activeProfileId
                                     THEN [ profiles[i] EXCEPT !.processedData = processed ]
                                     ELSE profiles[i] ],
                                 rawData, processed, cleanedData, IdlePmv)
                         /\ isLoading' = FALSE
                         /\ error' = NoError
                         /\ hist' = NoHist
                         /\ UNCHANGED << activeProfileId, uploads, nextId, cleanOps >>
                ELSE /\ isLoading' = TRUE
                     /\ error' = NoError
                     /\ uploads' = uploads \cup
                            { [ kind |-> "analyze", profileId |-> activeProfileId,
                                file |-> FileOf(currentProfile) ] }
                     /\ Hold(heap, profiles, rawData, processedData, cleanedData, IdlePmv)
                     /\ hist' = NoHist
                     /\ UNCHANGED << activeProfileId, nextId, cleanOps >>

\* processFile resolved: the profile that was active at the call (when it is
\* still in the Map) and the derived state get the processed table
ProcessAndAnalyzeFinish(u) ==
    /\ Quiet
    /\ u \in uploads
    /\ u.kind = "analyze"
    /\ u.file.parses
    /\ LET processed == NewRef(heap)
       IN  Hold(Alloc(heap, processed, u.file.table),
                [ i \in DOMAIN profiles |->
                    IF profiles[i].id = u.profileId
                    THEN [ profiles[i] EXCEPT !.processedData = processed ]
                    ELSE profiles[i] ],
                rawData, processed, cleanedData, IdlePmv)
    /\ isLoading' = FALSE
    /\ uploads' = uploads \ { u }
    /\ hist' = NoHist
    /\ UNCHANGED << activeProfileId, error, nextId, cleanOps >>

\* processFile rejected: the catch block
ProcessAndAnalyzeFail(u) ==
    /\ Quiet
    /\ u \in uploads
    /\ u.kind = "analyze"
    /\ ~u.file.parses
    /\ error' = "Processing failed"
    /\ isLoading' = FALSE
    /\ uploads' = uploads \ { u }
    /\ hist' = NoHist
    /\ Hold(heap, profiles, rawData, processedData, cleanedData, IdlePmv)
    /\ UNCHANGED << activeProfileId, nextId, cleanOps >>

(***************************************************************************)
(* removeDuplicates / removeOutliers                                        *)
(***************************************************************************)
\* a variant of the filter that counts the rows from 1
FilterRowsOneBased(rows, indices, at) ==
    LET kept == { p \in DOMAIN rows : (p + at) \notin Range(indices) }
    IN  [ k \in 1..Cardinality(kept) |->
            rows[CHOOSE p \in kept : Cardinality({ q \in kept : q <= p }) = k] ]

RECURSIVE FilterRows(_, _, _)
\* rows.filter((_, index) => !indices.includes(index)); index is 0-based and
\* `at` is the index of the first row of rows
FilterRows(rows, indices, at) ==
    IF rows = << >> THEN << >>
    ELSE (IF at \in Range(indices) THEN << >> ELSE << Head(rows) >>)
         \o FilterRows(Tail(rows), indices, at + 1)

\* a variant that reads the table as it was uploaded, whatever was removed since
RemovalSourceAsUploaded ==
    IF activeProfileId \in ProfileIds THEN ProfileOf(activeProfileId).processedData
    ELSE NoRef

\* the table removeDuplicates and removeOutliers read: the active profile's
\* cleanedData || processedData
RemovalSource ==
    IF activeProfileId \in ProfileIds
    THEN IF ProfileOf(activeProfileId).cleanedData # NoRef
         THEN ProfileOf(activeProfileId).cleanedData
         ELSE ProfileOf(activeProfileId).processedData
    ELSE NoRef

\* the first defined of a profile's cleaned, processed and raw table
FirstDefined(profile) ==
    IF profile.cleanedData # NoRef THEN profile.cleanedData
    ELSE IF profile.processedData # NoRef THEN profile.processedData
    ELSE profile.rawData

\* that table of the active profile; NoRef without an active profile
ActiveInput ==
    IF activeProfileId \in ProfileIds THEN FirstDefined(ProfileOf(activeProfileId))
    ELSE NoRef

\* a variant that filters the active profile's processed table where it is
RemoveRowsInPlace(indices) ==
    /\ Quiet
    /\ cleanOps < MaxCleanOps
    /\ IF RemovalSource = NoRef
       THEN UNCHANGED vars
       ELSE LET data == heap[RemovalSource]
                target == ProfileOf(activeProfileId).processedData
                filtered == [ heap EXCEPT ![target].rows = FilterRows(data.rows, indices, 0) ]
            IN  /\ Hold(filtered,
                        [ i \in DOMAIN profiles |->
                            IF profiles[i].id = activeProfileId
                            THEN [ profiles[i] EXCEPT !.cleanedData = target ]
                            ELSE profiles[i] ],
                        rawData, processedData, target, IdlePmv)
                /\ hist' = [ NoHist EXCEPT !.op = "remove", !.indices = indices,
                                           !.input = data, !.first = heap[ActiveInput] ]
                /\ cleanOps' = cleanOps + 1
                /\ UNCHANGED << activeProfileId, isLoading, error, uploads, nextId >>

RemoveRows(indices) ==
    /\ Quiet
    /\ cleanOps < MaxCleanOps
    /\ IF RemovalSource = NoRef
       THEN UNCHANGED vars
       ELSE LET data == heap[RemovalSource]
                newCleanedData == Table(data.headers, FilterRows(data.rows, indices, 0))
                ref == NewRef(heap)
            IN  /\ Hold(Alloc(heap, ref, newCleanedData),
                        [ i \in DOMAIN profiles |->
                            IF profiles[i].id = activeProfileId
                            THEN [ profiles[i] EXCEPT !.cleanedData = ref ]
                            ELSE profiles[i] ],
                        rawData, processedData, ref, IdlePmv)
                /\ hist' = IF hist.since = "commit"
                           THEN [ hist EXCEPT !.since = "removed", !.op = "remove",
                                              !.indices = indices, !.input = data,
                                              !.first = heap[ActiveInput] ]
                           ELSE [ NoHist EXCEPT !.op = "remove", !.indices = indices,
                                                !.input = data,
                                                !.first = heap[ActiveInput] ]
                /\ cleanOps' = cleanOps + 1
                /\ UNCHANGED << activeProfileId, isLoading, error, uploads, nextId >>

RemoveDuplicates(indices) == RemoveRows(indices)

RemoveOutliers(indices) == RemoveRows(indices)

(***************************************************************************)
(* cleanData                                                               *)
(***************************************************************************)
\* the operation types cleanData is called with; the last is one it does not
\* know
CleanOperations == { "missing", "outliers", "duplicates", "normalize" }

\* cleanData(operationType, { indices }).  The body has no await: the copy of
\* the table, the call of removeOutliers or removeDuplicates and the final
\* set({ cleanedData: result, isLoading: false }) are one step.
CleanData(operationType, indices) ==
    /\ Quiet
    /\ cleanOps < MaxCleanOps
    /\ cleanOps' = cleanOps + 1
    /\ LET dataToClean == IF cleanedData # NoRef THEN cleanedData ELSE processedData
       IN  IF dataToClean = NoRef
           THEN /\ error' = "No data to clean"
                /\ Hold(heap, profiles, rawData, processedData, cleanedData, IdlePmv)
                /\ hist' = NoHist
                /\ UNCHANGED << activeProfileId, isLoading, uploads, nextId >>
           ELSE IF operationType \notin { "missing", "outliers", "duplicates" }
           THEN /\ error' = "Unknown operation: " \o operationType
                /\ isLoading' = FALSE
                /\ Hold(heap, profiles, rawData, processedData, cleanedData, IdlePmv)
                /\ hist' = NoHist
                /\ UNCHANGED << activeProfileId, uploads, nextId >>
           ELSE LET \* const result = { ...dataToClean }
                    result == NewRef(heap)
                    h1 == Alloc(heap, result, heap[dataToClean])
                    \* the removal reads and writes the active profile
                    removes == operationType # "missing" /\ RemovalSource # NoRef
                    ref == NewRef(h1)
                    data == heap[RemovalSource]
                    h2 == IF removes
                          THEN Alloc(h1, ref, Table(data.headers,
                                                    FilterRows(data.rows, indices, 0)))
                          ELSE h1
                    ps == [ i \in DOMAIN profiles |->
                              IF removes /\ profiles[i].id = activeProfileId
                              THEN [ profiles[i] EXCEPT !.cleanedData = ref ]
                              ELSE profiles[i] ]
                IN  /\ Hold(h2, ps, rawData, processedData, result, IdlePmv)
                    /\ isLoading' = FALSE
                    /\ hist' = [ NoHist EXCEPT !.op = operationType,
                                               !.indices = indices,
                                               !.input = heap[dataToClean] ]
                    /\ UNCHANGED << activeProfileId, error, uploads, nextId >>

(***************************************************************************)
(* processMissingValues                                                    *)
(***************************************************************************)
\* cleanedData || processedData of the derived state, else rawData, else nothing
SourceRef ==
    IF cleanedData # NoRef THEN cleanedData
    ELSE IF processedData # NoRef THEN processedData
    ELSE rawData

\* JSON.parse(JSON.stringify(rows)) and [...headers]
DeepCopy(table) ==
    Table(table.headers,
          [ r \in DOMAIN table.rows |->
              [ c \in DOMAIN table.rows[r] |-> JsonRoundTrip(table.rows[r][c]) ] ])

\* a variant in which currentData is the source object itself
WorkingRefAliased(h, src) == src

\* the object currentData is: a new one
WorkingRef(h, src) == NewRef(h)

RECURSIVE EntryKeys(_)
EntryKeys(settings) ==
    IF settings = << >> THEN << >>
    ELSE << Head(settings).key >> \o EntryKeys(Tail(settings))

\* settings[column]
SettingOf(settings, key) ==
    settings[CHOOSE i \in DOMAIN settings : settings[i].key = key].setting

Progress(value) == [ hook |-> "onProgress", value |-> value, message |-> "" ]
Complete == [ hook |-> "onComplete", value |-> 0, message |-> "" ]
Failure(message) == [ hook |-> "onError", value |-> 0, message |-> message ]

\* Math.round((currentStep / totalSteps) * 100)
ProgressOf(step, total) == (200 * step + total) \div (2 * total)

\* no source table: set the error, call onError, return
PMVNoData(settings) ==
    /\ Quiet
    /\ cleanOps < MaxCleanOps
    /\ SourceRef = NoRef
    /\ error' = "No data available for processing"
    /\ Hold(heap, profiles, rawData, processedData, cleanedData,
            [ IdlePmv EXCEPT !.pc = "failed", !.settings = settings,
                             !.cleanedBefore = cleanedData, !.owner = activeProfileId,
                             !.log = << Failure("No data available for processing") >> ])
    /\ hist' = NoHist
    /\ cleanOps' = cleanOps + 1
    /\ UNCHANGED << activeProfileId, isLoading, uploads, nextId >>

\* the call up to the loop: the source, isLoading, the deep copy, columnKeys
PMVStart(settings) ==
    /\ Quiet
    /\ cleanOps < MaxCleanOps
    /\ SourceRef # NoRef
    /\ LET fallback == cleanedData = NoRef /\ processedData = NoRef
           \* the fallback builds a new object from rawData's headers and rows
           src == IF fallback THEN NewRef(heap) ELSE SourceRef
           h1 == IF fallback THEN Alloc(heap, src, heap[rawData]) ELSE heap
           cur == WorkingRef(h1, src)
           h2 == Alloc(h1, cur, DeepCopy(h1[src]))
       IN  Hold(h2, profiles, rawData, processedData, cleanedData,
                [ pc |-> "running", settings |-> settings,
                  keys |-> OwnKeys(EntryKeys(settings)), step |-> 0,
                  cur |-> cur, src |-> src, readFrom |-> SourceRef,
                  srcSnap |-> heap[SourceRef], prevRows |-> h2[cur].rows,
                  cleanedBefore |-> cleanedData, owner |-> activeProfileId,
                  log |-> << >>, seen |-> << >> ])
    /\ isLoading' = TRUE
    /\ error' = NoError
    /\ hist' = NoHist
    /\ cleanOps' = cleanOps + 1
    /\ UNCHANGED << activeProfileId, uploads, nextId >>

\* a variant in which an absent column throws as well
NextThrowsOnAbsent ==
    \/ IndexOf(heap[pmv.cur].headers, pmv.keys[pmv.step + 1]) = 0
    \/ SettingOf(pmv.settings, pmv.keys[pmv.step + 1]).isNull

\* the column the loop is about to process, and whether its body throws:
\* reading .strategy of a null setting, once the column was found
NextKey == pmv.keys[pmv.step + 1]
NextColIndex == IndexOf(heap[pmv.cur].headers, NextKey)
NextThrows == NextColIndex # 0 /\ SettingOf(pmv.settings, NextKey).isNull

\* a variant of the iteration that stores the working table after each column
PMVColumnPublishing ==
    /\ pmv.pc = "running"
    /\ pmv.step < Len(pmv.keys)
    /\ ~NextThrows
    /\ LET rows == heap[pmv.cur].rows
           newRows == IF NextColIndex = 0 THEN rows
                      ELSE ProcessColumn(rows, NextColIndex, SettingOf(pmv.settings, NextKey))
       IN  Hold([ heap EXCEPT ![pmv.cur].rows = newRows ], profiles, rawData,
                processedData, pmv.cur,
                [ pmv EXCEPT !.step = pmv.step + 1, !.prevRows = rows,
                    !.seen = Append(pmv.seen, pmv.step),
                    !.log = Append(pmv.log,
                                   Progress(ProgressOf(pmv.step + 1, Len(pmv.keys)))) ])
    /\ UNCHANGED << activeProfileId, isLoading, error, uploads, nextId, cleanOps, hist >>

\* one iteration of the loop that runs to its end; currentData.rows is assigned
PMVColumn ==
    /\ pmv.pc = "running"
    /\ pmv.step < Len(pmv.keys)
    /\ ~NextThrows
    /\ LET rows == heap[pmv.cur].rows
           newRows == IF NextColIndex = 0 THEN rows
                      ELSE ProcessColumn(rows, NextColIndex, SettingOf(pmv.settings, NextKey))
       IN  /\ heap' = [ heap EXCEPT ![pmv.cur].rows = newRows ]
           /\ pmv' = [ pmv EXCEPT !.step = pmv.step + 1, !.prevRows = rows,
                         !.seen = Append(pmv.seen, pmv.step),
                         !.log = Append(pmv.log,
                                        Progress(ProgressOf(pmv.step + 1, Len(pmv.keys)))) ]
    /\ UNCHANGED << profiles, activeProfileId, isLoading, error, rawData,
                    processedData, cleanedData, uploads, nextId, cleanOps, hist >>

\* a variant of the catch block that also stores the table worked on so far
PMVThrowPartial ==
    /\ pmv.pc = "running"
    /\ pmv.step < Len(pmv.keys)
    /\ NextThrows
    /\ error' = "Cannot read properties of null"
    /\ isLoading' = FALSE
    /\ Hold(heap, profiles, rawData, processedData, pmv.cur,
            [ pmv EXCEPT !.pc = "failed", !.step = pmv.step + 1, !.cur = NoRef,
                !.seen = Append(pmv.seen, pmv.step),
                !.log = pmv.log \o << Progress(ProgressOf(pmv.step + 1, Len(pmv.keys))),
                                      Failure("Cannot read properties of null") >> ])
    /\ UNCHANGED << activeProfileId, uploads, nextId, cleanOps, hist >>

\* one iteration that throws: the catch block
PMVThrow ==
    /\ pmv.pc = "running"
    /\ pmv.step < Len(pmv.keys)
    /\ NextThrows
    /\ error' = "Cannot read properties of null"
    /\ isLoading' = FALSE
    /\ Hold(heap, profiles, rawData, processedData, cleanedData,
            [ pmv EXCEPT !.pc = "failed", !.step = pmv.step + 1, !.cur = NoRef,
                !.seen = Append(pmv.seen, pmv.step),
                !.log = pmv.log \o << Progress(ProgressOf(pmv.step + 1, Len(pmv.keys))),
                                      Failure("Cannot read properties of null") >> ])
    /\ UNCHANGED << activeProfileId, uploads, nextId, cleanOps, hist >>

\* a variant of the end of the call that reports the progress after onComplete
PMVCommitProgressLast ==
    /\ pmv.pc = "running"
    /\ pmv.step = Len(pmv.keys)
    /\ Hold(heap, profiles, rawData, processedData, pmv.cur,
            [ pmv EXCEPT !.pc = "done", !.seen = Append(pmv.seen, pmv.step),
                !.log = pmv.log \o << Complete, Progress(100) >> ])
    /\ isLoading' = FALSE
    /\ hist' = [ NoHist EXCEPT !.since = "commit", !.result = heap[pmv.cur],
                               !.owner = activeProfileId ]
    /\ UNCHANGED << activeProfileId, error, uploads, nextId, cleanOps >>

\* after the loop: set({ cleanedData: currentData, isLoading: false }), then
\* onProgress(100) and onComplete()
PMVCommit ==
    /\ pmv.pc = "running"
    /\ pmv.step = Len(pmv.keys)
    /\ Hold(heap, profiles, rawData, processedData, pmv.cur,
            [ pmv EXCEPT !.pc = "done", !.seen = Append(pmv.seen, pmv.step),
                !.log = pmv.log \o << Progress(100), Complete >> ])
    /\ isLoading' = FALSE
    /\ hist' = [ NoHist EXCEPT !.since = "commit", !.result = heap[pmv.cur],
                               !.owner = activeProfileId ]
    /\ UNCHANGED << activeProfileId, error, uploads, nextId, cleanOps >>

(***************************************************************************)
(* The store's specification                                               *)
(***************************************************************************)
(***************************************************************************)
(* persist: partialize, JSON storage, merge                                *)
(***************************************************************************)
\* the slot of the k-th table (raw, processed, cleaned) of the i-th stored profile
\* in the object graph JSON.parse builds: every table of the text becomes an
\* object of its own
ParsedRef(i, k, ref) == IF ref = NoRef THEN NoRef ELSE 3 * (i - 1) + k

\* the tables of JSON.parse(JSON.stringify(partialize(state))), by slot
ParsedHeap ==
    [ slot \in 1..(3 * Len(profiles)) |->
        LET i == ((slot - 1) \div 3) + 1
            k == ((slot - 1) % 3) + 1
            ref == ProfileRefs(<< profiles[i] >>)[k]
        IN  IF ref = NoRef THEN Table(<< >>, << >>) ELSE DeepCopy(heap[ref]) ]

\* the profiles of the persisted state: `{...profile, file: null}` of every entry
ParsedProfiles ==
    [ i \in DOMAIN profiles |->
        [ profiles[i] EXCEPT !.hasFile = FALSE,
                             !.rawData = ParsedRef(i, 1, @),
                             !.processedData = ParsedRef(i, 2, @),
                             !.cleanedData = ParsedRef(i, 3, @) ] ]

\* The page is loaded again: the store is created anew and merge(persistedState,
\* currentState) is applied to the state partialize wrote after the last set,
\* with currentState the initial state.  The calls that were pending are gone.
Rehydrate ==
    /\ Quiet
    /\ LET restored == ParsedProfiles
           at == { i \in DOMAIN restored : restored[i].id = activeProfileId }
           activeProfile == IF at = { } THEN createDefaultProfile(0, [ key |-> "" ])
                            ELSE restored[CHOOSE i \in at : TRUE]
       IN  Hold(ParsedHeap, restored, activeProfile.rawData, activeProfile.processedData,
                activeProfile.cleanedData, IdlePmv)
    /\ isLoading' = FALSE
    /\ error' = NoError
    /\ uploads' = { }
    /\ hist' = NoHist
    /\ UNCHANGED << activeProfileId, nextId, cleanOps >>

Next ==
    \/ \E file \in Files : UploadExisting(file) /\ UNCHANGED ml
    \/ \E file \in Files : UploadStart(file) /\ UNCHANGED ml
    \/ \E u \in uploads : UploadFinish(u) /\ UNCHANGED ml
    \/ \E u \in uploads : UploadFail(u) /\ UNCHANGED ml
    \/ \E id \in 1..MaxProfilesCreated : SwitchProfile(id) /\ UNCHANGED ml
    \/ \E id \in 1..MaxProfilesCreated : DeleteProfile(id) /\ UNCHANGED ml
    \/ ClearFile /\ UNCHANGED ml
    \/ ClearAllFiles /\ UNCHANGED ml
    \/ \E indices \in IndexLists : RemoveDuplicates(indices) /\ UNCHANGED ml
    \/ \E indices \in IndexLists : RemoveOutliers(indices) /\ UNCHANGED ml
    \/ \E settings \in StoreSettings : PMVNoData(settings) /\ UNCHANGED ml
    \/ \E settings \in StoreSettings : PMVStart(settings) /\ UNCHANGED ml
    \/ PMVColumn /\ UNCHANGED ml
    \/ PMVThrow /\ UNCHANGED ml
    \/ PMVCommit /\ UNCHANGED ml

Spec == Init /\ [][Next]_vars

(***************************************************************************)
(* Profile management on its own: createProfile, uploadFile, switchProfile, *)
(* deleteProfile, clearFile and clearAllFiles                               *)
(***************************************************************************)
NextProfiles ==
    \/ \E file \in Files : CreateProfile(file) /\ UNCHANGED ml
    \/ \E file \in Files : UploadExisting(file) /\ UNCHANGED ml
    \/ \E file \in Files : UploadStart(file) /\ UNCHANGED ml
    \/ \E u \in uploads : UploadFinish(u) /\ UNCHANGED ml
    \/ \E u \in uploads : UploadFail(u) /\ UNCHANGED ml
    \/ \E id \in 1..MaxProfilesManaged : SwitchProfile(id) /\ UNCHANGED ml
    \/ \E id \in 1..MaxProfilesManaged : DeleteProfile(id) /\ UNCHANGED ml
    \/ ClearFile /\ UNCHANGED ml
    \/ ClearAllFiles /\ UNCHANGED ml

SpecProfiles == Init /\ [][NextProfiles]_vars

(***************************************************************************)
(* The cleaning operations, cleanData included, on the profiles of a store  *)
(* from which no profile is deleted and which holds at most                 *)
(* MaxProfilesCreated profiles                                             *)
(***************************************************************************)
NextClean ==
    \/ \E file \in Files : nextId <= MaxProfilesCreated /\ CreateProfile(file) /\ UNCHANGED ml
    \/ \E file \in Files : UploadExisting(file) /\ UNCHANGED ml
    \/ \E file \in Files : UploadStart(file) /\ UNCHANGED ml
    \/ \E u \in uploads : UploadFinish(u) /\ UNCHANGED ml
    \/ \E u \in uploads : UploadFail(u) /\ UNCHANGED ml
    \/ \E id \in 1..MaxProfilesCreated : SwitchProfile(id) /\ UNCHANGED ml
    \/ \E indices \in IndexLists : RemoveDuplicates(indices) /\ UNCHANGED ml
    \/ \E indices \in IndexLists : RemoveOutliers(indices) /\ UNCHANGED ml
    \/ \E operationType \in CleanOperations, indices \in IndexLists :
          CleanData(operationType, indices) /\ UNCHANGED ml
    \/ \E settings \in StoreSettings : PMVNoData(settings) /\ UNCHANGED ml
    \/ \E settings \in StoreSettings : PMVStart(settings) /\ UNCHANGED ml
    \/ PMVColumn /\ UNCHANGED ml
    \/ PMVThrow /\ UNCHANGED ml
    \/ PMVCommit /\ UNCHANGED ml

SpecClean == Init /\ [][NextClean]_vars

(***************************************************************************)
(* The store across page loads: uploads, switches, the cleaning operations  *)
(* and the restoring of the persisted state                                *)
(***************************************************************************)
NextPersist ==
    \/ \E file \in Files : UploadStart(file) /\ UNCHANGED ml
    \/ \E u \in uploads : UploadFinish(u) /\ UNCHANGED ml
    \/ \E u \in uploads : UploadFail(u) /\ UNCHANGED ml
    \/ \E id \in 1..MaxProfilesCreated : SwitchProfile(id) /\ UNCHANGED ml
    \/ \E indices \in IndexLists : RemoveDuplicates(indices) /\ UNCHANGED ml
    \/ \E settings \in StoreSettings : PMVStart(settings) /\ UNCHANGED ml
    \/ PMVColumn /\ UNCHANGED ml
    \/ PMVThrow /\ UNCHANGED ml
    \/ PMVCommit /\ UNCHANGED ml
    \/ Rehydrate /\ UNCHANGED ml

SpecPersist == Init /\ [][NextPersist]_vars

(***************************************************************************)
(* The calls that set isLoading: uploadFile, processAndAnalyze, cleanData   *)
(* and processMissingValues, with createProfile and switchProfile to reach  *)
(* the profiles they work on                                               *)
(***************************************************************************)
NextLoading ==
    \/ \E file \in Files : nextId <= MaxProfilesCreated /\ CreateProfile(file) /\ UNCHANGED ml
    \/ \E file \in Files : UploadStart(file) /\ UNCHANGED ml
    \/ \E u \in uploads : UploadFinish(u) /\ UNCHANGED ml
    \/ \E u \in uploads : UploadFail(u) /\ UNCHANGED ml
    \/ ProcessAndAnalyzeStart /\ UNCHANGED ml
    \/ \E u \in uploads : ProcessAndAnalyzeFinish(u) /\ UNCHANGED ml
    \/ \E u \in uploads : ProcessAndAnalyzeFail(u) /\ UNCHANGED ml
    \/ \E operationType \in CleanOperations, indices \in IndexLists :
          cleanOps = 0 /\ CleanData(operationType, indices) /\ UNCHANGED ml
    \/ \E settings \in StoreSettings : PMVNoData(settings) /\ UNCHANGED ml
    \/ \E settings \in StoreSettings : cleanOps = 0 /\ PMVStart(settings) /\ UNCHANGED ml
    \/ PMVColumn /\ UNCHANGED ml
    \/ PMVThrow /\ UNCHANGED ml
    \/ PMVCommit /\ UNCHANGED ml

SpecLoading == Init /\ [][NextLoading]_vars

(***************************************************************************)
(* The imputation engine on its own: one uploaded table, one call           *)
(***************************************************************************)
\* the cells of the column x of the tables with several rows
SmallCells == { sNA, s1, s2, NumV(3), sa, sb }

\* the cells of the column x of the one-row tables: every kind of missing
\* marker, in several spellings, and values that look like one
WideCells ==
    { Null, Undef, sEmpty, StrV(<< " " >>), StrV(<< "\t", " " >>),
      StrV(<< "n", "a" >>), StrV(<< "N", "a" >>), StrV(<< " ", "N", "A", "\n" >>),
      StrV(<< "n", "/", "a" >>), StrV(<< "N", "/", "A", " " >>),
      StrV(<< "n", "u", "l", "l" >>), StrV(<< "\t", "N", "u", "L", "l" >>),
      StrV(<< "-" >>), StrV(<< " ", "-", " " >>),
      StrV(<< "n", "a", "n" >>), StrV(<< "N", "a", "N" >>),
      NumV(0), NumV(-1), BoolV(FALSE), BoolV(TRUE), StrV(<< "0" >>),
      StrV(<< "f", "a", "l", "s", "e" >>), StrV(<< "n", "o", "n", "e" >>),
      StrV(<< "n", " ", "a" >>), StrV(<< "-", "-" >>), StrV(<< "n", "u", "l" >>),
      StrV(<< "n", "/", "a", "." >>), StrV(<< "?" >>), StrV(<< "-", "1" >>) }

\* a table with the headers x and y whose column x holds cells and whose
\* column y numbers the rows
EngineTable(cells) ==
    Table(<< kx, ky >>, [ r \in DOMAIN cells |-> << cells[r], NumV(r) >> ])

\* a table of two columns in which each column misses one cell, in different
\* rows
OrderTable(first, second) ==
    Table(<< first, second >>, << << sNA, s1 >>, << s1, sNA >>, << s1, s1 >> >>)

EngineTables ==
    { EngineTable(cells) : cells \in UNION { [1..n -> SmallCells] : n \in 0..MaxRows } }
    \cup { EngineTable(<< sProto, sNA >>), EngineTable(<< sProto, sa, sNA >>) }
    \cup { EngineTable(<< c >>) : c \in WideCells }
    \cup { f.table : f \in { g \in Files : g.parses } }
    \cup { OrderTable(kx, ky), OrderTable(kx, k1) }

\* the settings of one call: one entry for the column x, or for y or z, or two
\* entries
EngineSettings ==
    { << Entry(kx, Setting("drop", v)) >> :
        v \in { Undef, NumV(0), NumV(30), NumV(34), NumV(50), NumV(100),
                StrV(<< "a", "b", "c" >>) } }
    \cup { << Entry(kx, Setting("fill-value", v)) >> :
             v \in { Undef, StrV(<< "5" >>), StrV(<< "a", "b", "c" >>), NumV(7),
                     StrV(<< " ", "-", "1", ".", "5" >>) } }
    \cup { << Entry(kx, Setting("fill-method", v)) >> :
             v \in { Undef, StrV(sMode), StrV(sMean), StrV(sMedian), StrV(sMin),
                     StrV(sMax) } }
    \cup { << Entry(ky, Setting("fill-method", StrV(sMean))) >>,
           << Entry(kz, Setting("drop", Undef)) >>, << Entry(kx, NullSetting) >> }
    \cup { << Entry(kx, Setting("fill-method", StrV(<< "s", "u", "m" >>))) >>,
           << Entry(kx, Setting("fill-method", StrV(<< "M", "e", "a", "n" >>))) >>,
           << Entry(kx, Setting("fill-method", NumV(7))) >>,
           << Entry(kz, Setting("fill-value", StrV(<< "5" >>))),
              Entry(kx, Setting("fill-value", StrV(<< "5" >>))) >>,
           << Entry(kx, Setting("drop", NumV(50))), Entry(kz, NullSetting) >> }
    \cup { << Entry(a, Setting("drop", NumV(34))), Entry(b, Setting("drop", NumV(34))) >> :
             << a, b >> \in { << kx, ky >>, << ky, kx >>, << kx, k1 >>, << k1, kx >> } }

\* the store after uploadFile of a file that parses to table
InitEngine ==
    \E table \in EngineTables :
        /\ ml = NoRun
        /\ heap = << table, table >>
        /\ profiles = << [ createDefaultProfile(1, [ key |-> "t.csv-1" ])
                             EXCEPT !.rawData = 1, !.processedData = 2 ] >>
        /\ activeProfileId = 1
        /\ isLoading = FALSE
        /\ error = NoError
        /\ rawData = 1
        /\ processedData = 2
        /\ cleanedData = NoRef
        /\ uploads = { }
        /\ nextId = 2
        /\ cleanOps = 0
        /\ pmv = IdlePmv
        /\ hist = NoHist

NextEngine ==
    \/ \E settings \in EngineSettings : pmv.pc = "idle" /\ PMVStart(settings) /\ UNCHANGED ml
    \/ PMVColumn /\ UNCHANGED ml
    \/ PMVThrow /\ UNCHANGED ml
    \/ PMVCommit /\ UNCHANGED ml

SpecEngine == InitEngine /\ [][NextEngine]_vars

(***************************************************************************)
(* The classifiers: runNaiveBayes, runKNN, runDecisionTree, runRandomForest *)
(***************************************************************************)
\* the longest label sequence
MaxLabels == 2

\* class labels: texts and a number
Labels == { sa, sb, NumV(1) }
LabelSeqs == UNION { [ 1..n -> Labels ] : n \in 1..MaxLabels }

RECURSIVE UniqueLabels(_)
\* Array.from(new Set(labels)): the labels, each once, in the order they first occur
UniqueLabels(labels) ==
    IF labels = << >> THEN << >>
    ELSE LET before == UniqueLabels(SubSeq(labels, 1, Len(labels) - 1))
             last == labels[Len(labels)]
         IN  IF last \in Range(before) THEN before ELSE Append(before, last)

\* encodeLabels(labels): the code of a label is its 0-based position in
\* uniqueLabels
encodeLabels(labels) ==
    LET uniqueLabels == UniqueLabels(labels)
    IN  [ encoded |-> [ i \in DOMAIN labels |-> IndexOf(uniqueLabels, labels[i]) - 1 ],
          classes |-> uniqueLabels ]

\* Array.from({ length: n }, (_, i) => i)
CodesUpTo(n) == [ i \in 1..n |-> i - 1 ]

\* calculateConfusionMatrix(actual, predicted, classes): a row and a column per
\* class; an entry whose actual or predicted value is not in classes is skipped
calculateConfusionMatrix(actual, predicted, classes) ==
    [ r \in DOMAIN classes |->
        [ c \in DOMAIN classes |->
            Cardinality({ i \in DOMAIN actual :
                            /\ IndexOf(classes, actual[i]) = r
                            /\ IndexOf(classes, predicted[i]) = c }) ] ]

\* The body the four classifiers share: both label sequences are encoded, the
\* model is trained on the training codes and predicts a code for every test
\* row, and the confusion matrix is counted over the test codes and the
\* predictions.  The model is a library's: its predictions are any of the codes
\* it was trained on.
Classify(type, predictions) ==
    /\ ml.pc = "called"
    /\ LET train == encodeLabels(ml.trainLabels)
           test == encodeLabels(ml.testLabels)
       IN  /\ predictions \in [ DOMAIN ml.testLabels -> Range(train.encoded) ]
           /\ ml' = [ ml EXCEPT !.pc = "done", !.type = type,
                                !.trainEncoded = train.encoded,
                                !.testEncoded = test.encoded,
                                !.classes = train.classes,
                                !.predictions = predictions,
                                !.confusion_matrix =
                                    calculateConfusionMatrix(test.encoded, predictions,
                                        CodesUpTo(Len(train.classes))) ]
    /\ UNCHANGED storeVars

runNaiveBayes(predictions) == Classify("classification", predictions)
runKNN(predictions) == Classify("knn_classification", predictions)
runDecisionTree(predictions) == Classify("tree_classification", predictions)
runRandomForest(predictions) == Classify("ensemble_classification", predictions)

\* the outputs a model can give for the test rows: sequences of codes
Predictions == UNION { [ 1..n -> 0..(Cardinality(Labels) - 1) ] : n \in 1..MaxLabels }

\* a classifier is called with training labels and test labels
InitLabels ==
    \E trainLabels \in LabelSeqs, testLabels \in LabelSeqs :
        /\ ml = [ NoRun EXCEPT !.pc = "called", !.trainLabels = trainLabels,
                               !.testLabels = testLabels ]
        /\ heap = << >>
        /\ profiles = << >>
        /\ activeProfileId = 0
        /\ isLoading = FALSE
        /\ error = NoError
        /\ rawData = NoRef
        /\ processedData = NoRef
        /\ cleanedData = NoRef
        /\ uploads = { }
        /\ nextId = 1
        /\ cleanOps = 0
        /\ pmv = IdlePmv
        /\ hist = NoHist

NextLabels ==
    \/ \E predictions \in Predictions : runNaiveBayes(predictions)
    \/ \E predictions \in Predictions : runKNN(predictions)
    \/ \E predictions \in Predictions : runDecisionTree(predictions)
    \/ \E predictions \in Predictions : runRandomForest(predictions)

SpecLabels == InitLabels /\ [][NextLabels]_vars

(***************************************************************************)
(* Properties of the store                                                 *)
(***************************************************************************)
\* the 1-based positions of the rows that stay when the rows at the 0-based
\* positions of indices are taken out of n rows
KeptPositions(n, indices) == { p \in 1..n : (p - 1) \notin Range(indices) }

\* out holds exactly the rows at the positions kept, in their order
IsRowsAt(out, rows, kept) ==
    /\ Len(out) = Cardinality(kept)
    /\ \A p \in kept : out[Cardinality({ q \in kept : q <= p })] = rows[p]

IsRowsWithout(out, rows, indices) ==
    IsRowsAt(out, rows, KeptPositions(Len(rows), indices))

\* C1: when a removeDuplicates or removeOutliers call directly follows a
\* successful processMissingValues, the store's cleanedData afterwards is the
\* imputation result without the rows at the given positions.
C1_RemovalKeepsImputation ==
    hist.since = "removed" =>
        /\ cleanedData # NoRef
        /\ heap[cleanedData].headers = hist.result.headers
        /\ IsRowsWithout(heap[cleanedData].rows, hist.result.rows, hist.indices)

\* C2: right after a successful processMissingValues the active profile's own
\* cleanedData is the table the imputation produced, and after switchProfile
\* calls that end at that profile the store's cleanedData is that table again.
C2_ImputationStoredInProfile ==
    /\ (hist.since = "commit" /\ hist.owner \in ProfileIds) =>
            /\ ProfileOf(hist.owner).cleanedData # NoRef
            /\ heap[ProfileOf(hist.owner).cleanedData] = hist.result
    /\ (hist.since = "switch" /\ hist.owner # 0 /\ activeProfileId = hist.owner) =>
            /\ cleanedData # NoRef
            /\ heap[cleanedData] = hist.result

\* C3: during and after a processMissingValues call, whether it ends in
\* onComplete or in onError, the table that was read as its source has the
\* headers and the cells it had when the call started.
C3_SourceNotMutated ==
    (pmv.pc # "idle" /\ pmv.readFrom # NoRef) => heap[pmv.readFrom] = pmv.srcSnap

\* a call that completed with rows different from those of its source
C3_Witness ==
    /\ pmv.pc = "done"
    /\ pmv.readFrom # NoRef
    /\ heap[pmv.cur].rows # pmv.srcSnap.rows

\* C10: after removeDuplicates(indices) or removeOutliers(indices) the cleaned
\* table, of the store and of the active profile, is a new object with the
\* headers of the input table and exactly the input rows whose 0-based position
\* is not in indices, in order; the row count drops by the number of distinct
\* positions that are in range.
C10_RemovalFiltersRows ==
    hist.op = "remove" =>
        /\ cleanedData # NoRef
        /\ cleanedData \notin { rawData, processedData }
        /\ ProfileOf(activeProfileId).cleanedData = cleanedData
        /\ heap[cleanedData].headers = hist.input.headers
        /\ IsRowsWithout(heap[cleanedData].rows, hist.input.rows, hist.indices)
        /\ Len(heap[cleanedData].rows) =
               Len(hist.input.rows)
               - Cardinality({ i \in Range(hist.indices) : 0 <= i /\ i < Len(hist.input.rows) })

\* a removal with a repeated position and positions outside the table
C10_Witness ==
    /\ hist.op = "remove"
    /\ hist.indices = << 0, 0, 7, -1 >>
    /\ Len(hist.input.rows) = 3
    /\ Len(heap[cleanedData].rows) = 2

(***************************************************************************)
(* Properties of the imputation engine.  They are stated on the last column *)
(* step of the call: the rows before it and the rows after it.              *)
(***************************************************************************)
StepTaken == pmv.pc \in { "running", "done" } /\ pmv.step >= 1
StepKey == pmv.keys[pmv.step]
StepSetting == SettingOf(pmv.settings, StepKey)
StepCol == IndexOf(heap[pmv.cur].headers, StepKey)
Before == pmv.prevRows
After == heap[pmv.cur].rows

\* the step processed a column of the table with this strategy
StepIs(strategy) ==
    /\ StepTaken
    /\ StepCol # 0
    /\ ~StepSetting.isNull
    /\ StepSetting.strategy = strategy

MissingRows(rows, ci) == { r \in DOMAIN rows : isCellMissing(rows[r][ci]) }

\* the step left the row count and every cell outside `written` as they were,
\* and wrote fill into the cells of the column at the rows of `written`
WroteOnly(written, fill) ==
    /\ Len(After) = Len(Before)
    /\ \A r \in DOMAIN Before :
          /\ Len(After[r]) = Len(Before[r])
          /\ \A c \in DOMAIN Before[r] :
                After[r][c] = IF c = StepCol /\ r \in written THEN fill ELSE Before[r][c]

\* the threshold the drop strategy is described with: the numeric value, and 50
\* for a value that is absent or not numeric
ExpectedThreshold(value) ==
    IF value.t = "num" THEN QOf(value)
    ELSE IF value.t = "str" /\ trim(value.s) # << >> /\ ~isNaN(Number(value))
    THEN QOf(Number(value))
    ELSE Frac(50, 1)

\* C4: with strategy drop on an existing column, the rows whose cell is missing
\* are removed if and only if the missing percentage is at most the threshold
\* value (any numeric value from 0 to 100; 50 for an absent or non-numeric one),
\* and no row is removed otherwise.
C4_DropIffWithinThreshold ==
    StepIs("drop") =>
        LET missing == MissingRows(Before, StepCol)
            t == ExpectedThreshold(StepSetting.value)
        IN  IF Cardinality(missing) * 100 * t.d <= t.n * Len(Before)
            THEN IsRowsAt(After, Before, DOMAIN Before \ missing)
            ELSE After = Before

\* C5: with strategy fill-value and no value in the setting, every missing cell
\* of the column becomes the empty string.
C5_FillValueDefaultsToEmpty ==
    (StepIs("fill-value") /\ StepSetting.value.t = "undef") =>
        WroteOnly(MissingRows(Before, StepCol), StrV(<< >>))

\* what the given fill values are expected to fill with: numeric text and
\* numbers as the number, other text as the text
FillExamples ==
    { << StrV(<< "5" >>), NumV(5) >>,
      << StrV(<< " ", "-", "1", ".", "5" >>), NumQ(Frac(-3, 2)) >>,
      << NumV(7), NumV(7) >>,
      << StrV(<< "a", "b", "c" >>), StrV(<< "a", "b", "c" >>) >>,
      << StrV(<< "a" >>), StrV(<< "a" >>) >> }

ExpectedFill(value) == (CHOOSE e \in FillExamples : e[1] = value)[2]

\* C6: with strategy fill-value and a value given, every missing cell of the
\* column becomes the value as a number when the value parses numerically and
\* the value as text otherwise; the other cells, the other columns and the row
\* count stay as they were.
C6_FillValueCoercesNumbers ==
    (StepIs("fill-value") /\ StepSetting.value.t # "undef") =>
        /\ \E e \in FillExamples : e[1] = StepSetting.value
        /\ WroteOnly(MissingRows(Before, StepCol), ExpectedFill(StepSetting.value))

\* the value "5" filled a missing cell with the number 5 next to a cell that
\* was not missing
C6_Witness ==
    /\ StepIs("fill-value")
    /\ StepSetting.value = StrV(<< "5" >>)
    /\ \E r1, r2 \in DOMAIN Before :
          /\ isCellMissing(Before[r1][StepCol])
          /\ ~isCellMissing(Before[r2][StepCol])
          /\ After[r1][StepCol] = NumV(5)
          /\ After[r2][StepCol] = Before[r2][StepCol]

\* the markers of a missing value, and the letters they are written with in
\* upper case
MissingMarkers == { << "n", "a" >>, << "n", "/", "a" >>, << "n", "u", "l", "l" >>,
                    << "-" >>, << "n", "a", "n" >> }
Blank == { " ", "\t", "\n" }
UpperOf(c) ==
    CASE c = "n" -> "N" [] c = "a" -> "A" [] c = "u" -> "U" [] c = "l" -> "L"
      [] OTHER -> c

\* core is a marker up to the case of its letters
IsMarker(core) ==
    \E m \in MissingMarkers :
        /\ Len(core) = Len(m)
        /\ \A i \in DOMAIN m : core[i] \in { m[i], UpperOf(m[i]) }

\* null, undefined, or a text that is blanks around nothing or around a marker
ExpectedMissing(cell) ==
    \/ cell = Null
    \/ cell = Undef
    \/ /\ cell.t = "str"
       /\ \E i, j \in 0..Len(cell.s) :
             /\ i <= j
             /\ \A k \in 1..i : cell.s[k] \in Blank
             /\ \A k \in (j + 1)..Len(cell.s) : cell.s[k] \in Blank
             /\ (i = j \/ IsMarker(SubSeq(cell.s, i + 1, j)))

\* C8: the cells classified missing are exactly null, undefined, blank text and
\* the markers na, n/a, null, -, nan in any case with blanks around them; the
\* count behind the percentage, the rows a drop removes and the cells a fill
\* writes are those cells, and an applied drop removes as many rows as were
\* counted.
C8_OneClassifier ==
    (StepTaken /\ StepCol # 0 /\ ~StepSetting.isNull) =>
        LET missing == { r \in DOMAIN Before : ExpectedMissing(Before[r][StepCol]) }
            t == DropThreshold(StepSetting.value)
        IN  CASE StepSetting.strategy = "drop" ->
                    IF Cardinality(missing) * 100 * t.d <= t.n * Len(Before)
                    THEN /\ IsRowsAt(After, Before, DOMAIN Before \ missing)
                         /\ Len(Before) - Len(After) = Cardinality(missing)
                    ELSE After = Before
              [] StepSetting.strategy = "fill-value" ->
                    WroteOnly(missing, FillValueOf(StepSetting.value))
              [] StepSetting.strategy = "fill-method" ->
                    WroteOnly(missing, ReplacementValue(Before, StepCol, StepSetting.value))
              [] OTHER -> After = Before

\* a drop removed the row whose cell is the marker NA with blanks around it
C8_Witness ==
    /\ StepIs("drop")
    /\ Len(Before) = 1
    /\ Before[1][StepCol] = StrV(<< " ", "N", "A", "\n" >>)
    /\ After = << >>

\* the number a cell parses to, and the text it counts as in the mode
NumAt(rows, ci, r) == QOf(Number(rows[r][ci]))
TextAt(rows, ci, r) == String(rows[r][ci])

SameNumber(p, q) == p.n * q.d = q.n * p.d

RECURSIVE SumAt(_, _, _)
\* the sum of the numbers of the cells at the rows of S
SumAt(rows, ci, S) ==
    IF S = { } THEN Frac(0, 1)
    ELSE LET r == CHOOSE x \in S : TRUE
         IN  FracAdd(NumAt(rows, ci, r), SumAt(rows, ci, S \ { r }))

IsMean(v, rows, ci, S) ==
    /\ v.t = "num"
    /\ SameNumber(QOf(v), FracDivInt(SumAt(rows, ci, S), Cardinality(S)))

\* the middle value of an odd count; the average of the two middle values of
\* an even count
IsMedian(v, rows, ci, S) ==
    LET k == Cardinality(S)
        below(q) == Cardinality({ r \in S : FracLess(NumAt(rows, ci, r), q) })
        above(q) == Cardinality({ r \in S : FracLess(q, NumAt(rows, ci, r)) })
    IN  /\ v.t = "num"
        /\ IF k % 2 = 1
           THEN \E r \in S :
                   /\ SameNumber(QOf(v), NumAt(rows, ci, r))
                   /\ below(NumAt(rows, ci, r)) <= (k - 1) \div 2
                   /\ above(NumAt(rows, ci, r)) <= (k - 1) \div 2
           ELSE \E r1, r2 \in S :
                   LET lo == NumAt(rows, ci, r1)
                       hi == NumAt(rows, ci, r2)
                   IN  /\ r1 # r2
                       /\ FracLeq(lo, hi)
                       /\ below(lo) <= (k \div 2) - 1
                       /\ k - above(lo) >= k \div 2
                       /\ above(hi) <= (k \div 2) - 1
                       /\ k - below(hi) >= k \div 2
                       /\ SameNumber(QOf(v), FracDivInt(FracAdd(lo, hi), 2))

IsMin(v, rows, ci, S) ==
    /\ v.t = "num"
    /\ \E r \in S : SameNumber(QOf(v), NumAt(rows, ci, r))
    /\ \A r \in S : FracLeq(QOf(v), NumAt(rows, ci, r))

IsMax(v, rows, ci, S) ==
    /\ v.t = "num"
    /\ \E r \in S : SameNumber(QOf(v), NumAt(rows, ci, r))
    /\ \A r \in S : FracLeq(NumAt(rows, ci, r), QOf(v))

\* how often the text of the cell at row r occurs among the rows of S
TimesAt(rows, ci, S, r) ==
    Cardinality({ x \in S : TextAt(rows, ci, x) = TextAt(rows, ci, r) })

\* the rows of S whose text occurs most often
MostFrequentRows(rows, ci, S) ==
    { r \in S : \A x \in S : TimesAt(rows, ci, S, x) <= TimesAt(rows, ci, S, r) }

\* a text as the number it parses to, or as itself
AsNumberOrText(chars) ==
    IF ~isNaN(Number(StrV(chars))) THEN Number(StrV(chars)) ELSE StrV(chars)

\* v is a most frequent value of the cells at S (the empty string for no cell)
IsMode(v, rows, ci, S) ==
    IF S = { } THEN v = StrV(<< >>)
    ELSE \E r \in MostFrequentRows(rows, ci, S) : v = AsNumberOrText(TextAt(rows, ci, r))

KnownMethods == { sMode, sMean, sMedian, sMin, sMax }

\* C7: with strategy fill-method and one of the methods mode, mean, median, min,
\* max, every missing cell of the column gets one value: a mode of the
\* non-missing cells for the method mode or a column without a numeric cell,
\* otherwise the statistic of the numeric non-missing cells; the other cells and
\* the row count stay as they were.
C7_FillMethodWritesStatistic ==
    (StepIs("fill-method") /\ StepSetting.value.t = "str"
        /\ StepSetting.value.s \in KnownMethods) =>
        LET method == StepSetting.value.s
            missing == MissingRows(Before, StepCol)
            present == DOMAIN Before \ missing
            numeric == { r \in present : ~isNaN(Number(Before[r][StepCol])) }
            Fits(v) ==
                IF method = sMode \/ numeric = { } THEN IsMode(v, Before, StepCol, present)
                ELSE IF method = sMean THEN IsMean(v, Before, StepCol, numeric)
                ELSE IF method = sMedian THEN IsMedian(v, Before, StepCol, numeric)
                ELSE IF method = sMin THEN IsMin(v, Before, StepCol, numeric)
                ELSE IsMax(v, Before, StepCol, numeric)
        IN  IF missing = { } THEN After = Before
            ELSE \E r \in missing :
                    /\ Fits(After[r][StepCol])
                    /\ WroteOnly(missing, After[r][StepCol])

\* the column ["NA", "3", ""] filled by mean became [3, "3", 3]
C7_Witness ==
    /\ StepIs("fill-method")
    /\ StepSetting.value = StrV(sMean)
    /\ Len(Before) = 3
    /\ << Before[1][StepCol], Before[2][StepCol], Before[3][StepCol] >> = << sNA, s3, sEmpty >>
    /\ << After[1][StepCol], After[2][StepCol], After[3][StepCol] >> = << NumV(3), s3, NumV(3) >>

\* the mode with ties broken by the first value met: the value of the first
\* row among those whose text occurs most often
FirstMode(rows, ci, S) ==
    LET r == CHOOSE x \in MostFrequentRows(rows, ci, S) :
                 \A y \in MostFrequentRows(rows, ci, S) : x <= y
    IN  AsNumberOrText(TextAt(rows, ci, r))

\* C9: calculateMode returns the most frequent of its inputs by their text, on
\* a tie the one met first in the input, as a number when its text parses as
\* one; the fill by mode writes that value.
C9_ModeFirstEncountered ==
    (StepIs("fill-method") /\ StepSetting.value = StrV(sMode)) =>
        LET missing == MissingRows(Before, StepCol)
            present == DOMAIN Before \ missing
        IN  present # { } =>
                /\ calculateMode(NonMissingValues(Before, StepCol))
                      = FirstMode(Before, StepCol, present)
                /\ \A r \in missing : After[r][StepCol] = FirstMode(Before, StepCol, present)

(***************************************************************************)
(* Properties of the calls: failures, hooks, sources                        *)
(***************************************************************************)
\* the calls made to a hook, in order
CallsTo(hook) == { i \in DOMAIN pmv.log : pmv.log[i].hook = hook }

\* C11: when processMissingValues finds no source table, or an exception is
\* thrown while a column is processed, the store's error is a message, onError
\* was called (once, last, and onComplete not at all) with that message, and
\* the store's cleanedData is the table it was before the call, unchanged.
C11_FailureKeepsCleaned ==
    pmv.pc = "failed" =>
        /\ error # NoError
        /\ pmv.log # << >>
        /\ pmv.log[Len(pmv.log)] = Failure(error)
        /\ CallsTo("onError") = { Len(pmv.log) }
        /\ CallsTo("onComplete") = { }
        /\ cleanedData = pmv.cleanedBefore
        /\ (pmv.cleanedBefore # NoRef => heap[cleanedData] = pmv.srcSnap)

\* a call that failed on its second column, after the first was processed,
\* in a store that held a cleaned table
C11_Witness ==
    /\ pmv.pc = "failed"
    /\ pmv.step = 2
    /\ pmv.cleanedBefore # NoRef
    /\ error = "Cannot read properties of null"

\* the keys of the call whose column is in the table, in the order of the call
RECURSIVE PresentKeys(_, _)
PresentKeys(keys, headers) ==
    IF keys = << >> THEN << >>
    ELSE (IF IndexOf(headers, Head(keys)) = 0 THEN << >> ELSE << Head(keys) >>)
         \o PresentKeys(Tail(keys), headers)

\* the rows left by processing the columns of keys, each of them in the table
RECURSIVE RunPresent(_, _, _, _)
RunPresent(rows, headers, settings, keys) ==
    IF keys = << >> THEN rows
    ELSE RunPresent(ProcessColumn(rows, IndexOf(headers, Head(keys)),
                                  SettingOf(settings, Head(keys))),
                    headers, settings, Tail(keys))

\* some entry of the call names a column that is not in the table
HasAbsentColumn ==
    \E i \in DOMAIN pmv.keys : IndexOf(pmv.srcSnap.headers, pmv.keys[i]) = 0

\* some entry of the call for a column of the table is null
HasNullSetting ==
    \E i \in DOMAIN pmv.keys :
        /\ IndexOf(pmv.srcSnap.headers, pmv.keys[i]) # 0
        /\ SettingOf(pmv.settings, pmv.keys[i]).isNull

\* C12: a call whose settings name a column that is not in the headers (and
\* are well formed for the columns that are) ends in onComplete with no error
\* and no onError, and its table is the one the entries of the present columns
\* alone produce.
C12_AbsentColumnSkipped ==
    (pmv.pc \in { "done", "failed" } /\ pmv.readFrom # NoRef
        /\ HasAbsentColumn /\ ~HasNullSetting) =>
        /\ pmv.pc = "done"
        /\ error = NoError
        /\ CallsTo("onError") = { }
        /\ CallsTo("onComplete") = { Len(pmv.log) }
        /\ heap[pmv.cur].headers = pmv.srcSnap.headers
        /\ heap[pmv.cur].rows =
              RunPresent(DeepCopy(pmv.srcSnap).rows, pmv.srcSnap.headers, pmv.settings,
                         PresentKeys(pmv.keys, pmv.srcSnap.headers))

\* a completed call that skipped the absent column z and then filled x
C12_Witness ==
    /\ pmv.pc = "done"
    /\ pmv.keys = << kz, kx >>
    /\ \E r \in DOMAIN Before :
          /\ isCellMissing(Before[r][1])
          /\ After[r][1] = NumV(5)

\* C13: each cleaning operation takes as its input the first defined of the
\* active profile's cleaned, processed and raw table: a processMissingValues
\* call that starts works on that table (and one that finds no data is a call
\* whose active profile has none), and a removal filters that table.
C13_InputIsActiveProfilesTable ==
    /\ (pmv.pc # "idle" /\ pmv.readFrom # NoRef) =>
            /\ pmv.owner \in ProfileIds
            /\ FirstDefined(ProfileOf(pmv.owner)) # NoRef
            /\ pmv.srcSnap = heap[FirstDefined(ProfileOf(pmv.owner))]
    /\ (pmv.pc = "failed" /\ pmv.readFrom = NoRef) => ActiveInput = NoRef
    /\ hist.op = "remove" => hist.input = hist.first

\* C14: when cleanData("duplicates", {indices}) or cleanData("outliers",
\* {indices}) has finished, the store's cleanedData is the table that was
\* current before the call (cleaned, else processed) without the rows at the
\* given positions, and the active profile's cleanedData is the same table.
C14_CleanDataDispatches ==
    hist.op \in { "duplicates", "outliers" } =>
        /\ cleanedData # NoRef
        /\ heap[cleanedData].headers = hist.input.headers
        /\ IsRowsWithout(heap[cleanedData].rows, hist.input.rows, hist.indices)
        /\ activeProfileId \in ProfileIds
        /\ ProfileOf(activeProfileId).cleanedData # NoRef
        /\ heap[ProfileOf(activeProfileId).cleanedData] = heap[cleanedData]

(***************************************************************************)
(* C15                                                                     *)
(***************************************************************************)
\* whether a reference holds a table, and the table it holds
TableAt(h, ref) ==
    << ref # NoRef, IF ref = NoRef THEN Table(<< >>, << >>) ELSE h[ref] >>

\* a step of processMissingValues, removeDuplicates, removeOutliers or cleanData
CleaningStep == cleanOps' # cleanOps \/ pmv.pc = "running"

\* a profile that has its raw table keeps it, cell by cell, as long as it is in
\* the Map
RawKept ==
    \A i \in DOMAIN profiles : \A j \in DOMAIN profiles' :
        (profiles[i].rawData # NoRef /\ profiles'[j].id = profiles[i].id) =>
            TableAt(heap', profiles'[j].rawData) = TableAt(heap, profiles[i].rawData)

\* what a cleaning step leaves as it was: the profiles and their raw and
\* processed tables, the derived rawData and processedData, and the rest of the
\* store but cleanedData, isLoading and error
CleaningFrame ==
    /\ DOMAIN profiles' = DOMAIN profiles
    /\ \A i \in DOMAIN profiles :
          /\ profiles'[i].id = profiles[i].id
          /\ TableAt(heap', profiles'[i].rawData) = TableAt(heap, profiles[i].rawData)
          /\ TableAt(heap', profiles'[i].processedData)
               = TableAt(heap, profiles[i].processedData)
    /\ TableAt(heap', rawData') = TableAt(heap, rawData)
    /\ TableAt(heap', processedData') = TableAt(heap, processedData)
    /\ UNCHANGED << activeProfileId, uploads, nextId >>

\* C15: once uploadFile has set a profile's rawData, no step of the store changes
\* its headers or cells while the profile exists; and every step of
\* processMissingValues, removeDuplicates, removeOutliers and cleanData leaves
\* every profile's rawData and processedData (and the derived ones) unchanged,
\* writing only the cleaned table, isLoading and error.
C15_RawAndProcessedKept ==
    [][ RawKept /\ (CleaningStep => CleaningFrame) ]_vars

\* an imputation and then a removal have left the active profile with a cleaned
\* table that differs from its raw one
C15_Witness ==
    /\ hist.since = "removed"
    /\ activeProfileId \in ProfileIds
    /\ ProfileOf(activeProfileId).rawData # NoRef
    /\ ProfileOf(activeProfileId).cleanedData # NoRef
    /\ heap[ProfileOf(activeProfileId).cleanedData]
         # heap[ProfileOf(activeProfileId).rawData]

(***************************************************************************)
(* C16                                                                     *)
(***************************************************************************)
\* the active profile, if any, is in the Map, and there is one unless the Map
\* is empty
ActiveProfileExists ==
    /\ activeProfileId = 0 \/ activeProfileId \in ProfileIds
    /\ activeProfileId = 0 => profiles = << >>
    /\ Cardinality({ i \in DOMAIN profiles : profiles[i].id = activeProfileId }) <= 1

\* a call of switchProfile with an id that is not in the Map
SwitchToAbsent ==
    \E id \in 1..MaxProfilesManaged : id \notin ProfileIds /\ SwitchProfile(id)

\* C16: through createProfile, uploadFile, switchProfile, deleteProfile,
\* clearFile and clearAllFiles, activeProfileId is null or the key of one profile
\* of the Map, and null only when the Map is empty; switchProfile with an id that
\* is not in the Map changes nothing.
C16_ActiveProfileExists ==
    /\ []ActiveProfileExists
    /\ [][SwitchToAbsent => UNCHANGED vars]_vars

\* two profiles were created and the second was deleted: the first is active
C16_Witness ==
    /\ nextId = 3
    /\ Len(profiles) = 1
    /\ activeProfileId = 1
    /\ profiles[1].id = 1

(***************************************************************************)
(* C17                                                                     *)
(***************************************************************************)
\* while the call runs the store's cleanedData is the object it was when the
\* call started, with the content it had, and is not the working table
CleanedKeptWhileRunning ==
    pmv.pc = "running" =>
        /\ cleanedData = pmv.cleanedBefore
        /\ cleanedData # pmv.cur
        /\ (cleanedData # NoRef => heap[cleanedData] = pmv.srcSnap)

\* when the call has completed, cleanedData is the table with every column of
\* settings applied
CleanedIsFinalWhenDone ==
    pmv.pc = "done" =>
        /\ cleanedData # NoRef
        /\ heap[cleanedData].headers = pmv.srcSnap.headers
        /\ heap[cleanedData].rows =
              RunPresent(DeepCopy(pmv.srcSnap).rows, pmv.srcSnap.headers, pmv.settings,
                         PresentKeys(pmv.keys, pmv.srcSnap.headers))

\* a call started right after a completed one takes that one's result as source
SecondReadsFirst ==
    (pmv.pc = "done" /\ pmv'.pc = "running") =>
        /\ pmv'.srcSnap = heap[cleanedData]
        /\ pmv'.readFrom = cleanedData'

\* C17: while processMissingValues runs, the store's cleanedData keeps its
\* previous value until every column of settings has been processed and is
\* then the final table, so no state shows a table with only some of the
\* columns applied; and a second call started when the first has finished
\* reads the first call's result as its source.
C17_SingleCommit ==
    /\ []CleanedKeptWhileRunning
    /\ []CleanedIsFinalWhenDone
    /\ [][SecondReadsFirst]_vars

\* a call on a store that holds a cleaned table has processed the first of its
\* two columns, and its working table differs from the store's cleanedData
C17_Witness ==
    /\ pmv.pc = "running"
    /\ pmv.step = 1
    /\ Len(pmv.keys) = 2
    /\ cleanedData # NoRef
    /\ heap[pmv.cur] # heap[cleanedData]

(***************************************************************************)
(* C18                                                                     *)
(***************************************************************************)
\* the values given to onProgress, in order
ProgressValues == [ k \in 1..Cardinality(CallsTo("onProgress")) |-> pmv.log[k].value ]

\* the k-th value is round(k / n * 100), and the one after the n-th is 100
ProgressValuesRight ==
    \A k \in DOMAIN ProgressValues :
        ProgressValues[k] = IF k <= Len(pmv.keys) THEN ProgressOf(k, Len(pmv.keys)) ELSE 100

ProgressNonDecreasing ==
    \A j, k \in DOMAIN ProgressValues : j <= k => ProgressValues[j] <= ProgressValues[k]

\* the last call before onComplete is onProgress(100)
LastProgressIsFull ==
    pmv.pc = "done" =>
        /\ Len(pmv.log) >= 2
        /\ pmv.log[Len(pmv.log)] = Complete
        /\ pmv.log[Len(pmv.log) - 1] = Progress(100)

\* C18: for settings with n columns the k-th onProgress value is
\* round(k / n * 100) and is delivered only once k columns have been processed,
\* so a reported 100 means every column was processed; the values are
\* non-decreasing and the last value before onComplete is 100.
C18_ProgressAfterColumn ==
    /\ CallsTo("onProgress") = 1..Cardinality(CallsTo("onProgress"))
    /\ ProgressValuesRight
    /\ ProgressNonDecreasing
    /\ LastProgressIsFull
    /\ \A k \in DOMAIN ProgressValues :
          /\ k <= Len(pmv.keys) => pmv.seen[k] >= k
          /\ ProgressValues[k] = 100 => pmv.seen[k] = Len(pmv.keys)

(***************************************************************************)
(* C19                                                                     *)
(***************************************************************************)
\* the value of the setting names a method, and not one of the five
NamesUnknownMethod(value) ==
    \/ value.t = "str" /\ value.s # << >> /\ value.s \notin KnownMethods
    \/ value.t = "num" /\ value # NumV(0)

\* the column has a cell that is not missing and reads as a number
HasNumericCell(rows, ci) ==
    \E r \in DOMAIN rows : ~ExpectedMissing(rows[r][ci]) /\ ~isNaN(Number(rows[r][ci]))

\* C19: with strategy fill-method and a method name that is none of mode, mean,
\* median, min, max, on a column with at least one numeric non-missing cell,
\* every missing cell of the column becomes the number 0, the other cells stay,
\* and the call completes without an error.
C19_UnknownMethodFillsZero ==
    (StepIs("fill-method") /\ NamesUnknownMethod(StepSetting.value)
        /\ HasNumericCell(Before, StepCol)) =>
        /\ WroteOnly({ r \in DOMAIN Before : ExpectedMissing(Before[r][StepCol]) }, NumV(0))
        /\ error = NoError
        /\ CallsTo("onError") = { }
        /\ (pmv.step = Len(pmv.keys) /\ pmv.pc = "done"
              => pmv.log[Len(pmv.log)] = Complete /\ heap[cleanedData].rows = After)

\* the method "sum" on a column with the numeric cell "1" and a missing cell:
\* the call has completed and the missing cell is 0
C19_Witness ==
    /\ StepIs("fill-method")
    /\ StepSetting.value = StrV(<< "s", "u", "m" >>)
    /\ pmv.pc = "done"
    /\ \E r, q \in DOMAIN Before :
          /\ Before[r][StepCol] = s1
          /\ Before[q][StepCol] = sNA
          /\ After[q][StepCol] = NumV(0)

(***************************************************************************)
(* C20                                                                     *)
(***************************************************************************)
\* the rows the settings produce when their columns are processed one at a
\* time in the order of the settings, each on the rows left by the ones before
RowsInSettingsOrder ==
    RunPresent(DeepCopy(pmv.srcSnap).rows, pmv.srcSnap.headers, pmv.settings,
               PresentKeys(EntryKeys(pmv.settings), pmv.srcSnap.headers))

\* C20: the columns are processed one at a time in the order they appear in
\* settings, each on the working table as left by the columns before it: the
\* k-th column processed is the k-th entry of settings, and the completed call
\* stores the rows that processing in that order produces.
C20_SettingsOrder ==
    /\ (pmv.pc = "running" /\ pmv.step >= 1)
          => pmv.keys[pmv.step] = EntryKeys(pmv.settings)[pmv.step]
    /\ (pmv.pc = "done" /\ ~HasNullSetting)
          => heap[pmv.cur].rows = RowsInSettingsOrder

(***************************************************************************)
(* C21                                                                     *)
(***************************************************************************)
\* the derived tables are the active profile's, or null without one
DerivedMirrorsActive ==
    IF activeProfileId \in ProfileIds
    THEN /\ rawData = ProfileOf(activeProfileId).rawData
         /\ processedData = ProfileOf(activeProfileId).processedData
         /\ cleanedData = ProfileOf(activeProfileId).cleanedData
    ELSE rawData = NoRef /\ processedData = NoRef /\ cleanedData = NoRef

\* C21: after every store action that has run to completion without
\* overlapping another one, the top-level rawData, processedData and cleanedData
\* are the active profile's tables, or null when no profile is active.  Stated
\* for the stores in which at most one upload was ever started, none is pending
\* and no profile was deleted: there the only calls that can fall between the
\* start and the end of the upload find no table and write none.
C21_DerivedMirrorsActive ==
    (uploads = { } /\ pmv.pc # "running" /\ nextId <= 2 /\ Len(profiles) = nextId - 1)
        => DerivedMirrorsActive

(***************************************************************************)
(* C22                                                                     *)
(***************************************************************************)
\* a removal that directly follows a removal takes the positions in the table
\* the first one left
SecondRemovalOnShrunkTable ==
    (hist.op = "remove" /\ hist'.op = "remove") =>
        /\ hist'.input = heap[cleanedData]
        /\ heap'[cleanedData'].headers = heap[cleanedData].headers
        /\ IsRowsWithout(heap'[cleanedData'].rows, heap[cleanedData].rows, hist'.indices)

\* C22: the positions given to removeDuplicates/removeOutliers are taken in the
\* table current at that call, not in an earlier one: a second removal with the
\* same positions removes the rows that are at those positions in the table
\* the first removal left, so a removal is not idempotent.
C22_PositionsInCurrentTable ==
    [][SecondRemovalOnShrunkTable]_vars

\* position 1 removed from a.csv's rows r0, r2, which are what a removal of
\* position 1 leaves of r0, r1, r2: r0 alone is left
C22_Witness ==
    /\ hist.op = "remove"
    /\ hist.indices = << 1 >>
    /\ hist.input.rows = << << s1, sNA >>, << sEmpty, sEmpty >> >>
    /\ heap[cleanedData].rows = << << s1, sNA >> >>

(***************************************************************************)
(* C23                                                                     *)
(***************************************************************************)
\* C23: every call of processMissingValues calls exactly one of onComplete and
\* onError, once and as its last hook call: none while the loop runs, which
\* ends after at most one iteration per column; onComplete when cleanedData is
\* the new table and isLoading is false; onError when cleanedData is the
\* object it was, unchanged.
C23_OneOutcomeHook ==
    /\ pmv.pc = "running" =>
          /\ CallsTo("onComplete") \cup CallsTo("onError") = { }
          /\ pmv.step <= Len(pmv.keys)
    /\ pmv.pc = "done" =>
          /\ CallsTo("onComplete") = { Len(pmv.log) }
          /\ CallsTo("onError") = { }
          /\ isLoading = FALSE
          /\ cleanedData = pmv.cur
          /\ cleanedData \notin { NoRef, pmv.cleanedBefore, pmv.readFrom }
    /\ pmv.pc = "failed" =>
          /\ CallsTo("onError") = { Len(pmv.log) }
          /\ CallsTo("onComplete") = { }
          /\ cleanedData = pmv.cleanedBefore
          /\ (cleanedData # NoRef => heap[cleanedData] = pmv.srcSnap)

\* a completed call on a store that held a cleaned table: one onProgress for
\* its column, onProgress(100), onComplete
C23_Witness ==
    /\ pmv.pc = "done"
    /\ pmv.cleanedBefore # NoRef
    /\ Len(pmv.log) = 3
    /\ pmv.log[3] = Complete

(***************************************************************************)
(* C24                                                                     *)
(***************************************************************************)
\* the end of the only pending upload, whose profile is not the active one any
\* more (it was deleted, or another profile was switched to), leaves the
\* derived rawData and processedData as they were
StaleUploadKeepsDerived ==
    \A u \in uploads :
        (uploads = { u } /\ UploadFinish(u) /\ u.profileId # activeProfileId) =>
            /\ TableAt(heap', rawData') = TableAt(heap, rawData)
            /\ TableAt(heap', processedData') = TableAt(heap, processedData)

\* C24: when switchProfile or deleteProfile has run while an uploadFile call
\* was suspended at the parse, the end of the upload leaves the top-level
\* rawData and processedData those of the profile active at that moment: they
\* become the uploaded table only if the upload's profile still exists and is
\* the active one.
C24_StaleUploadKeepsDerived ==
    [][StaleUploadKeepsDerived]_vars

(***************************************************************************)
(* C25                                                                     *)
(***************************************************************************)
NoSharedFileIdentifier ==
    \A i, j \in DOMAIN profiles :
        profiles[i].fileIdentifier = profiles[j].fileIdentifier => i = j

\* uploadFile of a file whose identifier belongs to a profile: that profile
\* becomes the active one, no profile is added and no parse is started
UploadOfKnownFile ==
    \A file \in Files :
        ((\E i \in DOMAIN profiles : profiles[i].fileIdentifier = file.key)
            /\ (UploadExisting(file) \/ UploadStart(file))) =>
            /\ Len(profiles') = Len(profiles)
            /\ uploads' = uploads
            /\ nextId' = nextId
            /\ \E i \in DOMAIN profiles :
                  profiles[i].fileIdentifier = file.key /\ activeProfileId' = profiles[i].id

\* C25: across uploadFile, switchProfile, deleteProfile and clearFile calls,
\* overlapping uploads of one file included, no two profiles have the same
\* fileIdentifier; uploading a file whose identifier already belongs to a
\* profile only makes that profile active, leaves the number of profiles
\* unchanged and does not parse the file again.
C25_OneProfilePerFile ==
    /\ []NoSharedFileIdentifier
    /\ [][UploadOfKnownFile]_vars

\* two profiles, the upload of the first still pending, and the first active
\* again
C25_Witness ==
    /\ Len(profiles) = 2
    /\ activeProfileId = profiles[1].id
    /\ \E u \in uploads : u.profileId = profiles[1].id

(***************************************************************************)
(* C26                                                                     *)
(***************************************************************************)
\* the positions of the profiles other than id, and the k-th of them
OthersThan(id) == { i \in DOMAIN profiles : profiles[i].id # id }
KthOther(id, k) ==
    CHOOSE i \in OthersThan(id) : Cardinality({ j \in OthersThan(id) : j <= i }) = k

\* the profiles after the step are those other than id, in their order, each
\* with its identifier and its tables
OnlyRemoved(id) ==
    /\ Len(profiles') = Cardinality(OthersThan(id))
    /\ \A k \in DOMAIN profiles' :
          LET old == profiles[KthOther(id, k)]
          IN  /\ profiles'[k].id = old.id
              /\ profiles'[k].fileIdentifier = old.fileIdentifier
              /\ TableAt(heap', profiles'[k].rawData) = TableAt(heap, old.rawData)
              /\ TableAt(heap', profiles'[k].processedData) = TableAt(heap, old.processedData)
              /\ TableAt(heap', profiles'[k].cleanedData) = TableAt(heap, old.cleanedData)

DeleteProfileFrame ==
    \A id \in 1..MaxProfilesManaged :
        (id \in ProfileIds /\ DeleteProfile(id)) =>
            /\ OnlyRemoved(id)
            /\ UNCHANGED << isLoading, error, uploads >>
            /\ IF id # activeProfileId
               THEN /\ activeProfileId' = activeProfileId
                    /\ TableAt(heap', rawData') = TableAt(heap, rawData)
                    /\ TableAt(heap', processedData') = TableAt(heap, processedData)
                    /\ TableAt(heap', cleanedData') = TableAt(heap, cleanedData)
               ELSE IF OthersThan(id) # { }
               THEN /\ activeProfileId' = profiles[KthOther(id, 1)].id
                    /\ activeProfileId' = profiles'[1].id
                    /\ rawData' = profiles'[1].rawData
                    /\ processedData' = profiles'[1].processedData
                    /\ cleanedData' = profiles'[1].cleanedData
               ELSE /\ activeProfileId' = 0
                    /\ rawData' = NoRef
                    /\ processedData' = NoRef
                    /\ cleanedData' = NoRef

\* C26: deleteProfile of a profile that is not the active one removes that
\* profile only and leaves activeProfileId and the derived tables unchanged;
\* deleteProfile of the active profile makes the first remaining profile in
\* insertion order active, with the derived tables taken from it, or, when none
\* remains, sets activeProfileId to null and the derived tables to null.
C26_DeleteProfileFrame ==
    [][DeleteProfileFrame]_vars

\* three profiles were created and the third, the active one, was deleted: of
\* the two that remain the first is active
C26_Witness ==
    /\ nextId = 4
    /\ Len(profiles) = 2
    /\ profiles[1].id = 1
    /\ profiles[2].id = 2
    /\ activeProfileId = 1
    /\ hist = NoHist

(***************************************************************************)
(* C27                                                                     *)
(***************************************************************************)
\* the cells of the column are strings, numbers or null
PlainColumn(rows, ci) ==
    \A r \in DOMAIN rows : rows[r][ci].t \in { "str", "num", "null" }

\* C27: on a table whose cells are strings, numbers or null, after fill-method
\* with mode, mean, median, min or max on a column that has at least one
\* non-missing cell, no cell of the column is classified missing and the row
\* count is that of the rows before.
C27_FillLeavesNoneMissing ==
    (StepIs("fill-method") /\ StepSetting.value.t = "str"
        /\ StepSetting.value.s \in KnownMethods
        /\ PlainColumn(Before, StepCol)
        /\ \E r \in DOMAIN Before : ~ExpectedMissing(Before[r][StepCol])) =>
        /\ Len(After) = Len(Before)
        /\ \A r \in DOMAIN After :
              ~isCellMissing(After[r][StepCol]) /\ ~ExpectedMissing(After[r][StepCol])

(***************************************************************************)
(* C28                                                                     *)
(***************************************************************************)
\* no call is between its start and its return
NoCallRunning == uploads = { } /\ pmv.pc # "running"

\* C28: every uploadFile, processAndAnalyze, cleanData and processMissingValues
\* call that sets isLoading to true sets it back to false before it finishes,
\* on its success path and on its failure paths, so that isLoading is false
\* whenever every started call has returned.
C28_LoadingCleared ==
    NoCallRunning => isLoading = FALSE

\* an upload and a processAndAnalyze of the same profile have both failed, and
\* nothing is running
C28_Witness ==
    /\ NoCallRunning
    /\ error = "Processing failed"
    /\ isLoading = FALSE
    /\ profiles # << >>

(***************************************************************************)
(* C29                                                                     *)
(***************************************************************************)
\* the restored profiles are the profiles before, with the same tables, and
\* without their files
ProfilesRestored ==
    /\ Len(profiles') = Len(profiles)
    /\ \A i \in DOMAIN profiles :
         /\ profiles'[i].id = profiles[i].id
         /\ profiles'[i].fileIdentifier = profiles[i].fileIdentifier
         /\ ~profiles'[i].hasFile
         /\ TableAt(heap', profiles'[i].rawData) = TableAt(heap, profiles[i].rawData)
         /\ TableAt(heap', profiles'[i].processedData)
                = TableAt(heap, profiles[i].processedData)
         /\ TableAt(heap', profiles'[i].cleanedData) = TableAt(heap, profiles[i].cleanedData)
    /\ activeProfileId' = activeProfileId

\* the tables visible after restoring are the tables visible before
VisibleRestored ==
    /\ TableAt(heap', rawData') = TableAt(heap, rawData)
    /\ TableAt(heap', processedData') = TableAt(heap, processedData)
    /\ TableAt(heap', cleanedData') = TableAt(heap, cleanedData)

\* C29: persisting the store and restoring it is a round trip for the visible
\* tables: the restored profiles and activeProfileId are those before persisting
\* except that every file is null, and the top-level rawData, processedData and
\* cleanedData after restoring are the tables that were visible before.  Stated
\* for the stores in which at most one upload was ever started and none is
\* pending, so that no call has overlapped another one.
C29_PersistRoundTrip ==
    [][(Rehydrate /\ uploads = { } /\ nextId <= 2 /\ Len(profiles) = nextId - 1)
          => (ProfilesRestored /\ VisibleRestored)]_vars

(***************************************************************************)
(* C30                                                                     *)
(***************************************************************************)
\* a label has the same code in the training labels and in the test labels
SameCodeForSameLabel ==
    \A i \in DOMAIN ml.trainLabels, j \in DOMAIN ml.testLabels :
        ml.trainLabels[i] = ml.testLabels[j] => ml.trainEncoded[i] = ml.testEncoded[j]

\* the entry of the confusion matrix for a class and a predicted code counts the
\* test rows of that class for which that code was predicted
MatrixCountsClasses ==
    \A r \in DOMAIN ml.classes, c \in DOMAIN ml.classes :
        ml.confusion_matrix[r][c]
            = Cardinality({ j \in DOMAIN ml.testLabels :
                              ml.testLabels[j] = ml.classes[r] /\ ml.predictions[j] = c - 1 })

\* C30: in runNaiveBayes, runKNN, runDecisionTree and runRandomForest a class
\* label is mapped to the same numeric code in the training labels and in the
\* test labels, for every pair of label sequences, so that the predicted codes
\* and the test codes counted in the confusion matrix denote the same classes.
C30_SameCodeForSameLabel ==
    ml.pc = "done" => SameCodeForSameLabel

=============================================================================
